---- MODULE Spec2Model ----
(***************************************************************************)
(* Model of kani-driver/src/cbmc_output_parser.rs: the postprocessing      *)
(* pipeline that turns a batch of CBMC checks into the finalized check     *)
(* list and the overall verdict.                                           *)
(*                                                                         *)
(* Text is modelled as a sequence of atoms.  An atom is either one of the  *)
(* characters the code's regexes and searches distinguish ("[", "]", "_",  *)
(* " ", ".", a digit) or a run of other characters written as one string   *)
(* ("KANI_CHECK_ID", "msg", ...).  Substring search, the three regexes     *)
(* and the splitting of the qualified id all work on these sequences.      *)
(* The atoms "KANI_CHECK_ID" and "KANI_REACHABILITY" are always followed   *)
(* by "_", so the underscores inside them never end a greedy ".*_".        *)
(* Option<T> is <<>> for None and <<v>> for Some(v).                       *)
(***************************************************************************)
EXTENDS Integers, Sequences, FiniteSets, TLC

(***************************************************************************)
(* Bounds                                                                  *)
(***************************************************************************)
MaxBatch == 3

(***************************************************************************)
(* Option and text helpers                                                 *)
(***************************************************************************)
None == <<>>

Some(v) == <<v>>

is_some(o) == o # <<>>

unwrap(o) == o[1]

Min(S) == CHOOSE x \in S : \A y \in S : x <= y

Max(S) == CHOOSE x \in S : \A y \in S : x >= y

\* str::starts_with at a given offset: pat occurs in s at position i
HasAt(s, i, pat) ==
    /\ i >= 1
    /\ i + Len(pat) - 1 <= Len(s)
    /\ SubSeq(s, i, i + Len(pat) - 1) = pat

\* str::contains
contains(s, pat) == \E i \in 1..(Len(s) + 1) : HasAt(s, i, pat)

IsDigit(c) == c \in {"0", "1", "2", "3", "4", "5", "6", "7", "8", "9"}

\* number of consecutive digit atoms of s starting at position i
RECURSIVE DigitRun(_, _)
DigitRun(s, i) ==
    IF i <= Len(s) /\ IsDigit(s[i]) THEN 1 + DigitRun(s, i + 1) ELSE 0

(***************************************************************************)
(* Constants of the source                                                 *)
(***************************************************************************)
UNSUPPORTED_CONSTRUCT_DESC == <<"is not currently supported by Kani">>

UNWINDING_ASSERT_DESC == <<"unwinding assertion loop">>

ASSERTION_FALSE == <<"assertion", " ", "false">>

DEFAULT_ASSERTION == <<"assertion">>

REACH_CHECK_DESC == <<"[", "KANI_REACHABILITY", "_", "CHECK", "]">>

\* the literal prefix "KANI_CHECK_ID_" of the three regexes
KANI_CHECK_ID == <<"KANI_CHECK_ID", "_">>

UNDEFINED_FUNCTION_DESC == <<"Function with missing definition is unreachable">>

CheckStatus == {"Failure", "Success", "Undetermined", "Unreachable"}

\* "." of a Regex matches any character but "\n": the text from i to j is
\* what ".*" can span
OneLine(s, i, j) == \A m \in i..j : s[m] # "\n"

(***************************************************************************)
(* The three regexes                                                       *)
(***************************************************************************)
\* Regex "KANI_CHECK_ID_.*_([0-9])*", captures(..).get(0): the leftmost
\* match, ".*" greedy up to the last "_" of the text, then the digits that
\* follow it.  <<>> when the regex does not match.
reach_id_capture(s) ==
    LET ends(i) == {j \in (i + Len(KANI_CHECK_ID))..Len(s) :
                      s[j] = "_" /\ OneLine(s, i + Len(KANI_CHECK_ID), j - 1)}
        starts == {i \in 1..Len(s) : HasAt(s, i, KANI_CHECK_ID) /\ ends(i) # {}}
    IN  IF starts = {} THEN <<>>
        ELSE LET i == Min(starts)
                 j == Max(ends(i))
             IN  SubSeq(s, i, j + DigitRun(s, j + 1))

\* Regex "\[KANI_CHECK_ID_([^\]]*)\]", captures(..).get(0): the leftmost
\* match, which ends at the first "]" after the prefix.  <<>> when none.
prop_id_capture(s) ==
    LET pre == <<"[">> \o KANI_CHECK_ID
        starts == {i \in 1..Len(s) :
                     /\ HasAt(s, i, pre)
                     /\ \E k \in (i + Len(pre))..Len(s) : s[k] = "]"}
    IN  IF starts = {} THEN <<>>
        ELSE LET i == Min(starts)
                 k == Min({m \in (i + Len(pre))..Len(s) : s[m] = "]"})
             IN  SubSeq(s, i, k)

\* Regex "\[KANI_CHECK_ID_.*_([0-9])*\] " with Regex::replace(text, ""):
\* only the leftmost match is replaced; ".*" is greedy, so the match ends
\* at the last place where "_", digits, "]" and a space follow each other.
IdEnds(s, i) ==
    {j \in (i + 1 + Len(KANI_CHECK_ID))..Len(s) :
        /\ s[j] = "_"
        /\ OneLine(s, i + 1 + Len(KANI_CHECK_ID), j - 1)
        /\ HasAt(s, j + 1 + DigitRun(s, j + 1), <<"]", " ">>)}

remove_check_id(s) ==
    LET pre == <<"[">> \o KANI_CHECK_ID
        starts == {i \in 1..Len(s) : HasAt(s, i, pre) /\ IdEnds(s, i) # {}}
    IN  IF starts = {} THEN s
        ELSE LET i == Min(starts)
                 j == Max(IdEnds(s, i))
                 e == j + DigitRun(s, j + 1) + 2
             IN  SubSeq(s, 1, i - 1) \o SubSeq(s, e + 1, Len(s))

(***************************************************************************)
(* CBMC_DESCRIPTIONS: category-keyed rows of (pattern, alias) entries, in  *)
(* table order.  A pattern or alias is a one-atom text.                    *)
(***************************************************************************)
E(pat) == <<<<pat>>, None>>

A(pat, alias) == <<<<pat>>, Some(<<alias>>)>>

CBMC_DESCRIPTIONS ==
    << <<<<"error_label">>, <<>>>>,
       <<<<"division-by-zero">>, <<E("division by zero")>>>>,
       <<<<"enum-range-check">>, <<E("enum range check")>>>>,
       <<<<"undefined-shift">>,
         <<E("shift distance is negative"),
           E("shift distance too large"),
           E("shift operand is negative"),
           E("shift of non-integer type")>>>>,
       <<<<"overflow">>,
         <<E("result of signed mod is not representable"),
           E("arithmetic overflow on signed type conversion"),
           E("arithmetic overflow on signed division"),
           E("arithmetic overflow on signed unary minus"),
           E("arithmetic overflow on signed shl"),
           E("arithmetic overflow on unsigned unary minus"),
           A("arithmetic overflow on signed +", "arithmetic overflow on signed addition"),
           A("arithmetic overflow on signed -", "arithmetic overflow on signed subtraction"),
           A("arithmetic overflow on signed *", "arithmetic overflow on signed multiplication"),
           A("arithmetic overflow on unsigned +", "arithmetic overflow on unsigned addition"),
           A("arithmetic overflow on unsigned -", "arithmetic overflow on unsigned subtraction"),
           A("arithmetic overflow on unsigned *", "arithmetic overflow on unsigned multiplication"),
           E("arithmetic overflow on floating-point typecast"),
           E("arithmetic overflow on floating-point division"),
           E("arithmetic overflow on floating-point addition"),
           E("arithmetic overflow on floating-point subtraction"),
           E("arithmetic overflow on floating-point multiplication"),
           E("arithmetic overflow on unsigned to signed type conversion"),
           E("arithmetic overflow on float to signed integer type conversion"),
           E("arithmetic overflow on signed to unsigned type conversion"),
           E("arithmetic overflow on unsigned to unsigned type conversion"),
           E("arithmetic overflow on float to unsigned integer type conversion")>>>>,
       <<<<"NaN">>,
         <<A("NaN on +", "NaN on addition"),
           A("NaN on -", "NaN on subtraction"),
           A("NaN on /", "NaN on division"),
           A("NaN on *", "NaN on multiplication")>>>>,
       <<<<"pointer">>, <<E("same object violation")>>>>,
       <<<<"pointer_arithmetic">>,
         <<E("pointer relation: deallocated dynamic object"),
           E("pointer relation: dead object"),
           E("pointer relation: pointer NULL"),
           E("pointer relation: pointer invalid"),
           E("pointer relation: pointer outside dynamic object bounds"),
           E("pointer relation: pointer outside object bounds"),
           E("pointer relation: invalid integer address"),
           E("pointer arithmetic: deallocated dynamic object"),
           E("pointer arithmetic: dead object"),
           E("pointer arithmetic: pointer NULL"),
           E("pointer arithmetic: pointer invalid"),
           E("pointer arithmetic: pointer outside dynamic object bounds"),
           E("pointer arithmetic: pointer outside object bounds"),
           E("pointer arithmetic: invalid integer address")>>>>,
       <<<<"pointer_dereference">>,
         <<A("dereferenced function pointer must be", "dereference failure: invalid function pointer"),
           E("dereference failure: pointer NULL"),
           E("dereference failure: pointer invalid"),
           E("dereference failure: deallocated dynamic object"),
           E("dereference failure: dead object"),
           E("dereference failure: pointer outside dynamic object bounds"),
           E("dereference failure: pointer outside object bounds"),
           E("dereference failure: invalid integer address")>>>>,
       <<<<"pointer_primitives">>,
         <<E("pointer invalid"),
           A("deallocated dynamic object", "pointer to deallocated dynamic object"),
           A("dead object", "pointer to dead object"),
           E("pointer outside dynamic object bounds"),
           E("pointer outside object bounds"),
           E("invalid integer address")>>>>,
       <<<<"array_bounds">>,
         <<A("lower bound", "index out of bounds"),
           A("upper bound", "index out of bounds: the length is less than or equal to the given index")>>>>,
       <<<<"bit_count">>,
         <<E("count trailing zeros is undefined for value zero"),
           E("count leading zeros is undefined for value zero")>>>>,
       <<<<"memory-leak">>, <<E("dynamically allocated memory never freed")>>>> >>

\* HashMap::get on CBMC_DESCRIPTIONS: Some(row) for a key of the table
descriptions_get(class_id) ==
    LET hits == {k \in DOMAIN CBMC_DESCRIPTIONS : CBMC_DESCRIPTIONS[k][1] = class_id}
    IN  IF hits = {} THEN None ELSE Some(CBMC_DESCRIPTIONS[Min(hits)][2])

(***************************************************************************)
(* Property and its qualified id                                           *)
(***************************************************************************)
\* struct SourceLocation
SourceLocation(file, function, line, column) ==
    [file |-> file, function |-> function, line |-> line, column |-> column]

\* struct Property.  property is the qualified id, kept as the sequence of
\* its "."-separated segments, each segment a text.  origin is the position
\* of the check in the input batch (history only, no code reads it).
Property(description, property, source_location, status, origin) ==
    [description |-> description, property |-> property,
     source_location |-> source_location, status |-> status,
     reach |-> None, trace |-> None, origin |-> origin]

\* the segments 1..n joined with "." into one text
RECURSIVE JoinDots(_, _)
JoinDots(segs, n) ==
    IF n = 0 THEN <<>>
    ELSE IF n = 1 THEN segs[1]
    ELSE JoinDots(segs, n - 1) \o <<".">> \o segs[n]

\* str::rsplitn(3, ".").collect(): the segments from the right, at most
\* three items, the last item being the unsplit remainder
rsplitn3(segs) ==
    LET n == Len(segs)
    IN  IF n <= 3 THEN [i \in 1..n |-> segs[n + 1 - i]]
        ELSE <<segs[n], segs[n - 1], JoinDots(segs, n - 2)>>

\* extract_property_class accepting a one-segment id (len > 0, item 0)
extract_property_class_one_segment(property) ==
    LET property_class == rsplitn3(property.property)
    IN  IF Len(property_class) > 1 THEN Some(property_class[2])
        ELSE IF Len(property_class) > 0 THEN Some(property_class[1])
        ELSE None

extract_property_class(property) ==
    LET property_class == rsplitn3(property.property)
    IN  IF Len(property_class) > 1 THEN Some(property_class[2]) ELSE None

(***************************************************************************)
(* The stages of postprocess_result.  A stage that can panic returns a     *)
(* record whose field panic tells whether it did.                          *)
(***************************************************************************)
\* has_check_failures without the test of the status
has_check_failures_any_status(properties, message) ==
    \E i \in DOMAIN properties : contains(properties[i].description, message)

has_check_failures(properties, message) ==
    LET properties_with ==
            {i \in DOMAIN properties :
                /\ contains(properties[i].description, message)
                /\ properties[i].status = "Failure"}
    IN  Cardinality(properties_with) > 0

\* the condition of the if in modify_undefined_function_checks; && does
\* not evaluate the class of a check without ASSERTION_FALSE
is_undefined_function_check(prop) ==
    /\ contains(prop.description, ASSERTION_FALSE)
    /\ unwrap(extract_property_class(prop)) = DEFAULT_ASSERTION
    /\ ~is_some(prop.source_location.file)

modify_undefined_function_checks(properties) ==
    LET unwrap_none == \E i \in DOMAIN properties :
                          /\ contains(properties[i].description, ASSERTION_FALSE)
                          /\ ~is_some(extract_property_class(properties[i]))
    IN  IF unwrap_none THEN [panic |-> TRUE, properties |-> <<>>, flag |-> FALSE]
        ELSE [panic |-> FALSE,
              properties |->
                 [i \in DOMAIN properties |->
                    IF is_undefined_function_check(properties[i])
                    THEN [properties[i] EXCEPT !.description = UNDEFINED_FUNCTION_DESC]
                    ELSE properties[i]],
              flag |-> \E i \in DOMAIN properties :
                          /\ is_undefined_function_check(properties[i])
                          /\ properties[i].status = "Failure"]

\* filter_properties pushing the removed checks at the end of the kept ones
filter_properties_keep_removed(properties, message) ==
    <<SelectSeq(properties, LAMBDA prop : ~contains(prop.description, message))
         \o SelectSeq(properties, LAMBDA prop : contains(prop.description, message)),
      SelectSeq(properties, LAMBDA prop : contains(prop.description, message))>>

\* returns (filtered_properties, removed_properties)
filter_properties(properties, message) ==
    <<SelectSeq(properties, LAMBDA prop : ~contains(prop.description, message)),
      SelectSeq(properties, LAMBDA prop : contains(prop.description, message))>>

\* filter_reach_checks leaving the markers among the real checks
filter_reach_checks_keeps_markers(properties) ==
    <<properties, filter_properties(properties, REACH_CHECK_DESC)[2]>>

filter_reach_checks(properties) == filter_properties(properties, REACH_CHECK_DESC)

\* filter_sanity_checks dropping every sanity check that did not fail
filter_sanity_checks_not_failure(properties) ==
    IF \E i \in DOMAIN properties : ~is_some(extract_property_class(properties[i]))
    THEN [panic |-> TRUE, properties |-> <<>>]
    ELSE [panic |-> FALSE,
          properties |->
             SelectSeq(properties,
                       LAMBDA prop : ~(/\ unwrap(extract_property_class(prop)) = <<"sanity_check">>
                                       /\ prop.status # "Failure"))]

filter_sanity_checks(properties) ==
    IF \E i \in DOMAIN properties : ~is_some(extract_property_class(properties[i]))
    THEN [panic |-> TRUE, properties |-> <<>>]
    ELSE [panic |-> FALSE,
          properties |->
             SelectSeq(properties,
                       LAMBDA prop : ~(/\ unwrap(extract_property_class(prop)) = <<"sanity_check">>
                                       /\ prop.status = "Success"))]

\* the key inserted for a marker check: format!("[{}]", check_id)
check_id_str(reach_check) ==
    <<"[">> \o reach_id_capture(reach_check.description) \o <<"]">>

\* build_reach_map without assert!(res_ins.is_none()): a later marker with
\* the same key overwrites the earlier one
build_reach_map_overwrite(reach_checks) ==
    IF \E i \in DOMAIN reach_checks : reach_id_capture(reach_checks[i].description) = <<>>
    THEN None
    ELSE Some([k \in {check_id_str(reach_checks[i]) : i \in DOMAIN reach_checks} |->
                 LET i == Max({j \in DOMAIN reach_checks : check_id_str(reach_checks[j]) = k})
                 IN  reach_checks[i].status])

\* the first loop of annotate_properties_with_reach_results: None when
\* captures(..).unwrap() or assert!(res_ins.is_none()) panics, otherwise
\* Some(hash_map), hash_map a function from keys to statuses
build_reach_map(reach_checks) ==
    IF \/ \E i \in DOMAIN reach_checks : reach_id_capture(reach_checks[i].description) = <<>>
       \/ \E i, j \in DOMAIN reach_checks :
             i < j /\ check_id_str(reach_checks[i]) = check_id_str(reach_checks[j])
    THEN None
    ELSE Some([k \in {check_id_str(reach_checks[i]) : i \in DOMAIN reach_checks} |->
                 LET i == CHOOSE i \in DOMAIN reach_checks : check_id_str(reach_checks[i]) = k
                 IN  reach_checks[i].status])

\* annotate_property setting reach to Success on any match, whatever the
\* marker's status
annotate_property_success(prop, hash_map) ==
    LET prop_match_id == prop_id_capture(prop.description)
    IN  IF prop_match_id # <<>> /\ prop_match_id \in DOMAIN hash_map
        THEN [prop EXCEPT !.reach = Some("Success")]
        ELSE prop

\* the body of the second loop
annotate_property(prop, hash_map) ==
    LET prop_match_id == prop_id_capture(prop.description)
    IN  IF prop_match_id # <<>> /\ prop_match_id \in DOMAIN hash_map
        THEN [prop EXCEPT !.reach = Some(hash_map[prop_match_id])]
        ELSE prop

annotate_properties_with_reach_results(properties, reach_checks) ==
    LET built == build_reach_map(reach_checks)
    IN  IF ~is_some(built) THEN [panic |-> TRUE, properties |-> <<>>]
        ELSE [panic |-> FALSE,
              properties |-> [i \in DOMAIN properties |->
                                annotate_property(properties[i], unwrap(built))]]

remove_check_ids_from_description(properties) ==
    [i \in DOMAIN properties |->
        [properties[i] EXCEPT !.description = remove_check_id(properties[i].description)]]

\* filter_ptr_checks comparing the category for equality
filter_ptr_checks_exact(properties) ==
    SelectSeq(properties,
              LAMBDA prop :
                 /\ unwrap(extract_property_class(prop)) # <<"pointer_arithmetic">>
                 /\ unwrap(extract_property_class(prop)) # <<"pointer_primitives">>)

filter_ptr_checks(properties) ==
    SelectSeq(properties,
              LAMBDA prop :
                 /\ ~contains(unwrap(extract_property_class(prop)), <<"pointer_arithmetic">>)
                 /\ ~contains(unwrap(extract_property_class(prop)), <<"pointer_primitives">>))

\* the loop of get_readable_description keeping the last entry that matches
RECURSIVE first_match_takes_last(_, _, _)
first_match_takes_last(original, alt_descriptions, k) ==
    IF k > Len(alt_descriptions) THEN original
    ELSE LET desc_to_match == alt_descriptions[k][1]
             opt_desc_to_replace == alt_descriptions[k][2]
             later == first_match_takes_last(original, alt_descriptions, k + 1)
         IN  IF later # original \/ ~contains(original, desc_to_match) THEN later
             ELSE IF is_some(opt_desc_to_replace) THEN unwrap(opt_desc_to_replace)
             ELSE desc_to_match

\* the for loop of get_readable_description over the entries k.. of a row
RECURSIVE first_match(_, _, _)
first_match(original, alt_descriptions, k) ==
    IF k > Len(alt_descriptions) THEN original
    ELSE LET desc_to_match == alt_descriptions[k][1]
             opt_desc_to_replace == alt_descriptions[k][2]
         IN  IF contains(original, desc_to_match)
             THEN IF is_some(opt_desc_to_replace)
                  THEN unwrap(opt_desc_to_replace)
                  ELSE desc_to_match
             ELSE first_match(original, alt_descriptions, k + 1)

get_readable_description(property) ==
    LET original == property.description
        class_id == unwrap(extract_property_class(property))
        description_alternatives == descriptions_get(class_id)
    IN  IF is_some(description_alternatives)
        THEN first_match(original, unwrap(description_alternatives), 1)
        ELSE original

\* the assert! of final_changes fails on this check
promotes_non_success(prop, has_fundamental_failures) ==
    /\ ~has_fundamental_failures
    /\ prop.reach = Some("Success")
    /\ prop.status # "Success"

\* final_change without the inner status test: a fault flag forces every
\* status to Undetermined
final_change_forces_all(prop, has_fundamental_failures) ==
    LET described == [prop EXCEPT !.description = get_readable_description(prop)]
    IN  IF has_fundamental_failures
        THEN [described EXCEPT !.status = "Undetermined"]
        ELSE IF prop.reach = Some("Success")
             THEN [described EXCEPT !.status = "Unreachable"]
             ELSE described

\* final_change with the two branches swapped: the reach test comes first
final_change_promotes_first(prop, has_fundamental_failures) ==
    LET described == [prop EXCEPT !.description = get_readable_description(prop)]
    IN  IF prop.reach = Some("Success") /\ prop.status = "Success"
        THEN [described EXCEPT !.status = "Unreachable"]
        ELSE IF has_fundamental_failures /\ prop.status = "Success"
             THEN [described EXCEPT !.status = "Undetermined"]
             ELSE described

\* final_change promoting on any reach, not only on reach Success
final_change_any_reach(prop, has_fundamental_failures) ==
    LET described == [prop EXCEPT !.description = get_readable_description(prop)]
    IN  IF has_fundamental_failures
        THEN IF prop.status = "Success"
             THEN [described EXCEPT !.status = "Undetermined"]
             ELSE described
        ELSE IF is_some(prop.reach)
             THEN [described EXCEPT !.status = "Unreachable"]
             ELSE described

\* the body of the loop of final_changes
final_change(prop, has_fundamental_failures) ==
    LET described == [prop EXCEPT !.description = get_readable_description(prop)]
    IN  IF has_fundamental_failures
        THEN IF prop.status = "Success"
             THEN [described EXCEPT !.status = "Undetermined"]
             ELSE described
        ELSE IF prop.reach = Some("Success")
             THEN [described EXCEPT !.status = "Unreachable"]
             ELSE described

\* final_changes without the assert!: a check with reach Success is
\* promoted whatever its status
final_changes_no_assert(properties, has_fundamental_failures) ==
    [panic |-> FALSE,
     properties |-> [i \in DOMAIN properties |->
                       final_change(properties[i], has_fundamental_failures)]]

final_changes(properties, has_fundamental_failures) ==
    IF \E i \in DOMAIN properties :
          promotes_non_success(properties[i], has_fundamental_failures)
    THEN [panic |-> TRUE, properties |-> <<>>]
    ELSE [panic |-> FALSE,
          properties |-> [i \in DOMAIN properties |->
                            final_change(properties[i], has_fundamental_failures)]]

\* determine_result counting every check that is not Success as failed
determine_result_not_success(properties) ==
    LET number_failed ==
            Cardinality({i \in DOMAIN properties : properties[i].status # "Success"})
    IN  number_failed = 0

determine_result(properties) ==
    LET number_failed ==
            Cardinality({i \in DOMAIN properties : properties[i].status = "Failure"})
    IN  number_failed = 0

\* postprocess_result as a function: panic, or the pair it returns
postprocess_result(props, extra) ==
    LET unsupported == has_check_failures(props, UNSUPPORTED_CONSTRUCT_DESC)
        unwinding == has_check_failures(props, UNWINDING_ASSERT_DESC)
        undefined == modify_undefined_function_checks(props)
        split == filter_reach_checks(undefined.properties)
        sane == filter_sanity_checks(split[1])
        annotated == annotate_properties_with_reach_results(sane.properties, split[2])
        without_ids == remove_check_ids_from_description(annotated.properties)
        remaining == IF ~extra THEN filter_ptr_checks(without_ids) ELSE without_ids
        final == final_changes(remaining, unsupported \/ unwinding \/ undefined.flag)
        failed == [panic |-> TRUE, properties |-> <<>>, result |-> FALSE]
    IN  IF undefined.panic THEN failed
        ELSE IF sane.panic THEN failed
        ELSE IF annotated.panic THEN failed
        ELSE IF final.panic THEN failed
        ELSE [panic |-> FALSE, properties |-> final.properties,
              result |-> determine_result(final.properties)]

(***************************************************************************)
(* The formatter.  A rendered string is a text whose atoms are the         *)
(* literal pieces of the format strings and the atoms of the values.       *)
(***************************************************************************)
\* impl Display for CheckStatus
status_str(status) ==
    CASE status = "Success" -> <<"SUCCESS">>
      [] status = "Failure" -> <<"FAILURE">>
      [] status = "Unreachable" -> <<"UNREACHABLE">>
      [] status = "Undetermined" -> <<"UNDETERMINED">>

\* Display of an unsigned integer: its decimal digits
RECURSIVE Dec(_)
Dec(n) ==
    LET digit == <<"0", "1", "2", "3", "4", "5", "6", "7", "8", "9">>[(n % 10) + 1]
    IN  IF n < 10 THEN <<digit>> ELSE Dec(n \div 10) \o <<digit>>

\* the "/"-separated components of a path, without the leading "/"
RECURSIVE Components(_)
Components(path) ==
    IF path = <<>> THEN <<>>
    ELSE IF path[1] = "/" THEN Components(Tail(path))
    ELSE <<path[1]>> \o Components(Tail(path))

\* env::current_dir()
cur_dir == <<"/", "work">>

\* length of the common prefix of two component lists
RECURSIVE CommonPrefix(_, _)
CommonPrefix(a, b) ==
    IF a # <<>> /\ b # <<>> /\ a[1] = b[1] THEN 1 + CommonPrefix(Tail(a), Tail(b)) ELSE 0

RECURSIVE JoinPath(_)
JoinPath(comps) ==
    IF comps = <<>> THEN <<>>
    ELSE IF Len(comps) = 1 THEN <<comps[1]>>
    ELSE <<comps[1], "/">> \o JoinPath(Tail(comps))

\* pathdiff::diff_paths(path, base) for an absolute base: None for a
\* relative path, otherwise ".." for each component of base that is left
\* after the common prefix, then the rest of path
diff_paths(path, base) ==
    IF path = <<>> \/ path[1] # "/" THEN None
    ELSE LET pc_ == Components(path)
             bc == Components(base)
             n == CommonPrefix(pc_, bc)
         IN  Some(JoinPath([i \in 1..(Len(bc) - n) |-> ".."] \o SubSeq(pc_, n + 1, Len(pc_))))

filepath(file) ==
    LET diff_path == diff_paths(file, cur_dir)
    IN  IF is_some(diff_path) THEN unwrap(diff_path) ELSE file

\* impl Display for SourceLocation
location_str(loc) ==
    (IF is_some(loc.file)
     THEN filepath(unwrap(loc.file))
             \o (IF is_some(loc.line)
                 THEN <<":">> \o unwrap(loc.line)
                         \o (IF is_some(loc.column) THEN <<":">> \o unwrap(loc.column) ELSE <<>>)
                 ELSE <<>>)
     ELSE <<"Unknown File">>)
    \o (IF is_some(loc.function) THEN <<" in function ">> \o unwrap(loc.function) ELSE <<>>)

\* SourceLocation::is_missing
is_missing(loc) == ~is_some(loc.file) /\ ~is_some(loc.function)

\* struct TraceItem
TraceItem(thread, step_type, hidden, source_location) ==
    [thread |-> thread, step_type |-> step_type, hidden |-> hidden,
     source_location |-> source_location]

\* build_failure_message panics: failure_trace[failure_trace.len() - 1] on
\* an empty trace
failure_message_panics(trace) == is_some(trace) /\ unwrap(trace) = <<>>

\* build_failure_message taking the location of the first step of the trace
build_failure_message_first_step(description, trace) ==
    LET backup_failure_message == <<"Failed Checks: ">> \o description \o <<"\n">>
    IN  IF ~is_some(trace) THEN backup_failure_message
        ELSE LET failure_source_wrap == unwrap(trace)[1].source_location
             IN  IF ~is_some(failure_source_wrap) THEN backup_failure_message
                 ELSE LET failure_source == unwrap(failure_source_wrap)
                      IN  IF /\ is_some(failure_source.file)
                             /\ is_some(failure_source.function)
                             /\ is_some(failure_source.line)
                          THEN <<"Failed Checks: ">> \o description
                                  \o <<"\n File: \"">> \o unwrap(failure_source.file)
                                  \o <<"\", line ">> \o unwrap(failure_source.line)
                                  \o <<", in ">> \o unwrap(failure_source.function)
                                  \o <<"\n">>
                          ELSE backup_failure_message

build_failure_message(description, trace) ==
    LET backup_failure_message == <<"Failed Checks: ">> \o description \o <<"\n">>
    IN  IF ~is_some(trace) THEN backup_failure_message
        ELSE LET failure_trace == unwrap(trace)
                 failure_source_wrap == failure_trace[Len(failure_trace)].source_location
             IN  IF ~is_some(failure_source_wrap) THEN backup_failure_message
                 ELSE LET failure_source == unwrap(failure_source_wrap)
                      IN  IF /\ is_some(failure_source.file)
                             /\ is_some(failure_source.function)
                             /\ is_some(failure_source.line)
                          THEN <<"Failed Checks: ">> \o description
                                  \o <<"\n File: \"">> \o unwrap(failure_source.file)
                                  \o <<"\", line ">> \o unwrap(failure_source.line)
                                  \o <<", in ">> \o unwrap(failure_source.function)
                                  \o <<"\n">>
                          ELSE backup_failure_message

\* the text pushed for one check when show_checks is set
check_listing(prop, index) ==
    <<"Check ">> \o Dec(index) \o <<": ">> \o JoinDots(prop.property, Len(prop.property))
       \o <<"\n">>
       \o <<"\t - Status: ">> \o status_str(prop.status) \o <<"\n">>
       \o <<"\t - Description: \"">> \o prop.description \o <<"\"\n">>
       \o (IF ~is_missing(prop.source_location)
           THEN <<"\t - Location: ">> \o location_str(prop.source_location) \o <<"\n">>
           ELSE <<>>)
       \o <<"\n">>

\* the first loop of format_result from check k on, index being k
RECURSIVE listing(_, _)
listing(properties, k) ==
    IF k > Len(properties) THEN <<>>
    ELSE check_listing(properties[k], k) \o listing(properties, k + 1)

\* the second loop of format_result over failed_tests
RECURSIVE failure_digest(_)
failure_digest(failed_tests) ==
    IF failed_tests = <<>> THEN <<>>
    ELSE build_failure_message(failed_tests[1].description, failed_tests[1].trace)
            \o failure_digest(Tail(failed_tests))

\* count_status taking every check that is not Success for the status
count_status_not_success(properties, status) ==
    Cardinality({i \in DOMAIN properties : properties[i].status # "Success"})

count_status(properties, status) ==
    Cardinality({i \in DOMAIN properties : properties[i].status = status})

\* the " (..)" part of the summary line
other_status_str(number_tests_undetermined, number_tests_unreachable) ==
    LET undetermined == IF number_tests_undetermined > 0
                        THEN <<Dec(number_tests_undetermined) \o <<" undetermined">>>>
                        ELSE <<>>
        unreachable == IF number_tests_unreachable > 0
                       THEN <<Dec(number_tests_unreachable) \o <<" unreachable">>>>
                       ELSE <<>>
        other_status == undetermined \o unreachable
    IN  IF Len(other_status) > 0
        THEN <<" (">> \o other_status[1]
                \o (IF Len(other_status) > 1 THEN <<",">> \o other_status[2] ELSE <<>>)
                \o <<")">>
        ELSE <<>>

UNSUPPORTED_WARNING ==
    <<"** WARNING: A Rust construct that is not currently supported by Kani was found to be reachable. Check the results for more details.">>

\* (the backquotes around --unwinding-assertions are left out of the atom)
UNWINDING_TIP ==
    <<"[Kani] info: Verification output shows one or more unwinding failures.\n",
      "[Kani] tip: Consider increasing the unwinding value or disabling --unwinding-assertions.\n">>

\* format_result: panic, or the rendered report
format_result(properties, show_checks) ==
    LET number_tests_failed == count_status(properties, "Failure")
        number_tests_unreachable == count_status(properties, "Unreachable")
        number_tests_undetermined == count_status(properties, "Undetermined")
        failed_tests == SelectSeq(properties, LAMBDA prop : prop.status = "Failure")
        verification_result == IF number_tests_failed = 0 THEN "SUCCESSFUL " ELSE "FAILED"
    IN  IF \E i \in DOMAIN failed_tests : failure_message_panics(failed_tests[i].trace)
        THEN [panic |-> TRUE, text |-> <<>>]
        ELSE [panic |-> FALSE,
              text |->
                 (IF show_checks THEN <<"\nRESULTS:\n">> \o listing(properties, 1) ELSE <<>>)
                 \o (IF show_checks THEN <<"\nSUMMARY:">> ELSE <<"\nVERIFICATION RESULT:">>)
                 \o <<"\n ** ">> \o Dec(number_tests_failed) \o <<" of ">>
                 \o Dec(Len(properties)) \o <<" failed">>
                 \o other_status_str(number_tests_undetermined, number_tests_unreachable)
                 \o <<"\n">>
                 \o failure_digest(failed_tests)
                 \o <<"\nVERIFICATION:- ", verification_result, "\n">>
                 \o (IF has_check_failures(properties, UNSUPPORTED_CONSTRUCT_DESC)
                     THEN UNSUPPORTED_WARNING ELSE <<>>)
                 \o (IF has_check_failures(properties, UNWINDING_ASSERT_DESC)
                     THEN UNWINDING_TIP ELSE <<>>)]

(***************************************************************************)
(* Input checks.  CBMC's JSON carries no reach and, here, no trace.        *)
(***************************************************************************)
\* "[KANI_CHECK_ID_<id>]", the prefix Kani puts before a real check's text
Token(id) == <<"[">> \o KANI_CHECK_ID \o id \o <<"]">>

\* "[KANI_REACHABILITY_CHECK] KANI_CHECK_ID_<id>", a marker's description
MarkerDesc(id) == REACH_CHECK_DESC \o <<" ">> \o KANI_CHECK_ID \o id

IdA == <<"a", "_", "1">>

IdB == <<"b", "_", "2">>

Qid(category) == <<<<"main">>, category, <<"1">>>>

InFile == SourceLocation(Some(<<"main.rs">>), Some(<<"main">>), Some(<<"3">>), Some(<<"5">>))

NoFile == SourceLocation(None, None, None, None)

\* the checks a batch is drawn from, as <<description, qualified id,
\* source location, status>>
Checks ==
    { <<<<"msg">>, Qid(<<"assertion">>), InFile, "Success">>,
      <<<<"msg">>, Qid(<<"assertion">>), InFile, "Failure">>,
      <<<<"msg">>, Qid(<<"assertion">>), InFile, "Unreachable">>,
      <<Token(IdA) \o <<" ", "msg">>, Qid(<<"assertion">>), InFile, "Success">>,
      <<Token(IdA) \o <<" ", "msg">>, Qid(<<"sanity_check">>), InFile, "Failure">>,
      <<Token(IdA) \o <<" ", "msg">>, Qid(<<"sanity_check">>), InFile, "Undetermined">>,
      <<Token(IdB) \o <<" ">> \o Token(IdA) \o <<" ", "msg">>, Qid(<<"assertion">>), InFile, "Success">>,
      <<MarkerDesc(IdA), Qid(<<"reachability_check">>), InFile, "Success">>,
      <<MarkerDesc(IdB), <<<<"reachability_check">>>>, InFile, "Failure">>,
      <<MarkerDesc(IdB) \o <<" ">> \o ASSERTION_FALSE, <<<<"assertion">>>>, NoFile, "Success">>,
      <<<<"x", " ">> \o UNSUPPORTED_CONSTRUCT_DESC, Qid(<<"assertion">>), InFile, "Failure">>,
      <<UNWINDING_ASSERT_DESC \o <<" ", "0">>, Qid(<<"unwind">>), InFile, "Failure">>,
      <<ASSERTION_FALSE, Qid(<<"assertion">>), NoFile, "Failure">>,
      <<<<"msg">>, Qid(<<"sanity_check">>), InFile, "Success">>,
      <<Token(IdA) \o <<" ", "dead object">>, Qid(<<"pointer_primitives">>), InFile, "Failure">>,
      <<<<"msg">>, Qid(<<"my", "pointer_arithmetic">>), InFile, "Success">>,
      <<<<"msg">>, <<<<"assertion">>>>, InFile, "Success">> }

RECURSIVE Batches(_)
Batches(n) ==
    IF n = 0 THEN {<<>>}
    ELSE LET shorter == Batches(n - 1)
         IN  shorter \cup {Append(b, c) : b \in {x \in shorter : Len(x) = n - 1}, c \in Checks}

\* Vec<Property> as deserialized from the "result" array
Deserialize(batch) ==
    [i \in DOMAIN batch |-> Property(batch[i][1], batch[i][2], batch[i][3], batch[i][4], i)]

(***************************************************************************)
(* The streaming parser.  A line and the buffer are texts whose atoms are  *)
(* the single characters " ", "\n", "{", "}", ",", "[", "]" and, as one    *)
(* atom each, the "key": value members of an object.                       *)
(***************************************************************************)
\* enum ParserItem
ParserItem(kind, text, message_type, checks) ==
    [kind |-> kind, text |-> text, message_type |-> message_type, result |-> checks]

\* the checks of the "result" members the streams carry
ResultOk ==
    << <<<<"msg">>, <<<<"main">>, <<"assertion">>, <<"1">>>>,
         [file |-> Some(<<"main.rs">>), function |-> Some(<<"main">>),
          line |-> Some(<<"3">>), column |-> None], "Success">> >>

ResultFailed ==
    << <<<<"msg">>, <<<<"main">>, <<"assertion">>, <<"1">>>>,
         [file |-> Some(<<"main.rs">>), function |-> Some(<<"main">>),
          line |-> Some(<<"3">>), column |-> None], "Failure">>,
       <<<<"msg">>, <<<<"main">>, <<"sanity_check">>, <<"1">>>>,
         [file |-> None, function |-> None, line |-> None, column |-> None], "Success">> >>

ResultDuplicateMarker ==
    << <<REACH_CHECK_DESC \o <<" ">> \o KANI_CHECK_ID \o <<"a", "_", "1">>,
         <<<<"main">>, <<"reachability_check">>, <<"1">>>>,
         [file |-> None, function |-> None, line |-> None, column |-> None], "Success">>,
       <<REACH_CHECK_DESC \o <<" ">> \o KANI_CHECK_ID \o <<"a", "_", "1">>,
         <<<<"main">>, <<"reachability_check">>, <<"1">>>>,
         [file |-> None, function |-> None, line |-> None, column |-> None], "Success">> >>

\* the backquote character
BQ == "(backquote)"

OBJECT_BITS_HINT == <<"use the ", BQ, "--object-bits ", "n", BQ, " option">>

\* the members the streams carry: atom -> key, string value, array value
JsonMembers ==
    [a \in {"program: CBMC", "messageText: hello", "messageText: too many addressed objects",
            "messageText: VERIFICATION FAILED", "messageText: Building error trace",
            "program: VERIFICATION",
            "messageType: STATUS-MESSAGE", "messageType: ERROR", "result: ok",
            "result: failed", "result: duplicate marker", "cProverStatus: success"} |->
       CASE a = "program: CBMC" ->
               [key |-> "program", text |-> <<"CBMC 5.x">>, array |-> <<>>]
         [] a = "messageText: hello" ->
               [key |-> "messageText", text |-> <<"hello">>, array |-> <<>>]
         [] a = "messageText: too many addressed objects" ->
               [key |-> "messageText",
                text |-> <<"too many addressed objects: ">> \o OBJECT_BITS_HINT,
                array |-> <<>>]
         [] a = "messageText: VERIFICATION FAILED" ->
               [key |-> "messageText", text |-> <<"VERIFICATION", " FAILED">>, array |-> <<>>]
         [] a = "messageText: Building error trace" ->
               [key |-> "messageText", text |-> <<"Building error trace">>, array |-> <<>>]
         [] a = "program: VERIFICATION" ->
               [key |-> "program", text |-> <<"VERIFICATION", " tool">>, array |-> <<>>]
         [] a = "messageType: STATUS-MESSAGE" ->
               [key |-> "messageType", text |-> <<"STATUS-MESSAGE">>, array |-> <<>>]
         [] a = "messageType: ERROR" ->
               [key |-> "messageType", text |-> <<"ERROR">>, array |-> <<>>]
         [] a = "result: ok" -> [key |-> "result", text |-> <<>>, array |-> ResultOk]
         [] a = "result: failed" -> [key |-> "result", text |-> <<>>, array |-> ResultFailed]
         [] a = "result: duplicate marker" ->
               [key |-> "result", text |-> <<>>, array |-> ResultDuplicateMarker]
         [] a = "cProverStatus: success" ->
               [key |-> "cProverStatus", text |-> <<"success">>, array |-> <<>>]]

IsJsonWhitespace(c) == c \in {" ", "\n"}

\* serde_json::from_str::<ParserItem>: the text must be one object, its
\* members separated by ","; the untagged enum takes the first variant
\* whose fields are all there.  None for Err.
from_str(text) ==
    LET toks == SelectSeq(text, LAMBDA c : ~IsJsonWhitespace(c))
        n == Len(toks)
        is_object ==
            /\ n >= 2
            /\ toks[1] = "{"
            /\ toks[n] = "}"
            /\ (n - 2) % 2 = 1
            /\ \A k \in 2..(n - 1) :
                  IF k % 2 = 0 THEN toks[k] \in DOMAIN JsonMembers ELSE toks[k] = ","
        members == {JsonMembers[toks[k]] : k \in {j \in 2..(n - 1) : j % 2 = 0}}
        has(key) == \E m \in members : m.key = key
        get(key) == CHOOSE m \in members : m.key = key
    IN  IF ~is_object THEN None
        ELSE IF has("program")
             THEN Some(ParserItem("Program", get("program").text, <<>>, <<>>))
        ELSE IF has("messageText") /\ has("messageType")
             THEN Some(ParserItem("Message", get("messageText").text,
                                  get("messageType").text, <<>>))
        ELSE IF has("result")
             THEN Some(ParserItem("Result", <<>>, <<>>, Deserialize(get("result").array)))
        ELSE IF has("cProverStatus")
             THEN Some(ParserItem("ProverStatus", get("cProverStatus").text, <<>>, <<>>))
        ELSE None

\* Parser::triggers_action: Some(action) or None
triggers_action(input) ==
    IF HasAt(input, 1, <<"[">>) \/ HasAt(input, 1, <<"]">>) THEN Some("ClearInput")
    ELSE IF HasAt(input, 1, <<" ", " ", "}">>) THEN Some("ProcessItem")
    ELSE None

\* parse_item without the second attempt
parse_item_no_fallback(buffer) ==
    from_str(SubSeq(buffer, 1, Len(buffer) - 2))

\* Parser::parse_item: None when assert!(block.is_ok()) fails
parse_item(buffer) ==
    LET string_without_delimiter == SubSeq(buffer, 1, Len(buffer) - 2)
        block == from_str(string_without_delimiter)
    IN  IF is_some(block) THEN block
        ELSE from_str(buffer)

\* process_line whose ClearInput keeps the buffer
process_line_keeps_buffer(buffer, input) ==
    LET added == buffer \o input
        action_required == triggers_action(input)
    IN  IF ~is_some(action_required) \/ unwrap(action_required) = "ClearInput"
        THEN [panic |-> FALSE, input_so_far |-> added, item |-> None]
        ELSE IF ~is_some(parse_item(added))
        THEN [panic |-> TRUE, input_so_far |-> added, item |-> None]
        ELSE [panic |-> FALSE, input_so_far |-> <<>>, item |-> parse_item(added)]

\* Parser::process_line on the buffer: the new buffer and the item returned
process_line(buffer, input) ==
    LET added == buffer \o input
        action_required == triggers_action(input)
    IN  IF ~is_some(action_required)
        THEN [panic |-> FALSE, input_so_far |-> added, item |-> None]
        ELSE IF unwrap(action_required) = "ClearInput"
        THEN [panic |-> FALSE, input_so_far |-> <<>>, item |-> None]
        ELSE IF ~is_some(parse_item(added))
        THEN [panic |-> TRUE, input_so_far |-> added, item |-> None]
        ELSE [panic |-> FALSE, input_so_far |-> <<>>, item |-> parse_item(added)]

(***************************************************************************)
(* The item classifier and call_loop's body                                *)
(***************************************************************************)
\* str::replace: every non-overlapping occurrence of pat, left to right
RECURSIVE replace(_, _, _)
replace(s, pat, to) ==
    IF s = <<>> THEN <<>>
    ELSE IF HasAt(s, 1, pat) THEN to \o replace(SubSeq(s, Len(pat) + 1, Len(s)), pat, to)
    ELSE <<s[1]>> \o replace(Tail(s), pat, to)

\* postprocess_error_message rewriting nothing
postprocess_error_message_unchanged(message) == message

postprocess_error_message(message) ==
    IF message.kind = "Message" /\ contains(message.text, OBJECT_BITS_HINT)
    THEN ParserItem("Message",
                    replace(message.text, <<"--object-bits ">>,
                            <<"--enable-unstable --cbmc-args ", "--object-bits ">>),
                    <<"ERROR">>, <<>>)
    ELSE message

\* must_be_skipped looking at the text of any record
must_be_skipped_any_kind(it) ==
    \/ HasAt(it.text, 1, <<"Building error trace">>)
    \/ HasAt(it.text, 1, <<"VERIFICATION">>)

must_be_skipped(it) ==
    \/ it.kind = "Message" /\ HasAt(it.text, 1, <<"Building error trace">>)
    \/ it.kind = "Message" /\ HasAt(it.text, 1, <<"VERIFICATION">>)

\* process_item: panic, or the transformed item and the value of *res
process_item(it, extra, res) ==
    IF it.kind = "Result"
    THEN LET r == postprocess_result(it.result, extra)
         IN  IF r.panic THEN [panic |-> TRUE, item |-> it, res |-> res]
             ELSE [panic |-> FALSE,
                   item |-> ParserItem("Result", <<>>, <<>>, r.properties),
                   res |-> r.result]
    ELSE IF it.kind = "Message" /\ it.message_type = <<"ERROR">>
    THEN [panic |-> FALSE, item |-> postprocess_error_message(it), res |-> res]
    ELSE [panic |-> FALSE, item |-> it, res |-> res]

\* format_item_regular, format_item_terse: panic, or Option<String>
format_item_regular(it) ==
    IF it.kind = "Program" \/ it.kind = "Message"
    THEN [panic |-> FALSE, text |-> Some(it.text)]
    ELSE IF it.kind = "Result"
    THEN LET r == format_result(it.result, TRUE)
         IN  [panic |-> r.panic, text |-> IF r.panic THEN None ELSE Some(r.text)]
    ELSE [panic |-> FALSE, text |-> None]

\* format_item_terse rendering as format_item_regular does
format_item_terse_as_regular(it) ==
    IF it.kind = "Program" \/ it.kind = "Message"
    THEN [panic |-> FALSE, text |-> Some(it.text)]
    ELSE IF it.kind = "Result"
    THEN LET r == format_result(it.result, TRUE)
         IN  [panic |-> r.panic, text |-> IF r.panic THEN None ELSE Some(r.text)]
    ELSE [panic |-> FALSE, text |-> None]

format_item_terse(it) ==
    IF it.kind = "Result"
    THEN LET r == format_result(it.result, FALSE)
         IN  [panic |-> r.panic, text |-> IF r.panic THEN None ELSE Some(r.text)]
    ELSE [panic |-> FALSE, text |-> None]

\* format_item; OutputFormat::Old => todo!() panics
format_item(it, format) ==
    IF format = "Old" THEN [panic |-> TRUE, text |-> None]
    ELSE IF format = "Regular" THEN format_item_regular(it)
    ELSE format_item_terse(it)

(***************************************************************************)
(* postprocess_result as a state machine: one step per let binding         *)
(***************************************************************************)
VARIABLES
    properties,                           \* the argument
    extra_ptr_checks,                     \* the argument
    pc,                                   \* the binding reached; "done"; "panicked"
    has_reachable_unsupported_constructs,
    has_failed_unwinding_asserts,
    properties_with_undefined,
    has_reachable_undefined_functions,
    properties_without_reachs,
    reach_checks,
    properties_without_sanity_checks,
    properties_annotated,
    properties_without_ids,
    new_properties,
    has_fundamental_failures,
    final_properties,
    overall_result,
    \* call_loop and the parser it drives
    stream,                               \* the lines the process has yet to write
    stream_end,                           \* how read_line ends: "eof" (Ok(0)) or "err"
    input_so_far,                         \* Parser::input_so_far
    item,                                 \* the item next() returned, Option
    trans_item,                           \* the item process_item returned, Option
    output_format,                        \* "Regular", "Terse", "Old"
    result,                               \* the local of call_loop
    stdout                                \* the texts printed, in order

\* the locals of postprocess_result
post_vars == <<has_reachable_unsupported_constructs, has_failed_unwinding_asserts,
               properties_with_undefined, has_reachable_undefined_functions,
               properties_without_reachs, reach_checks, properties_without_sanity_checks,
               properties_annotated, properties_without_ids, new_properties,
               has_fundamental_failures, final_properties, overall_result>>

\* the state of call_loop
loop_vars == <<stream, stream_end, input_so_far, item, trans_item, output_format, result,
               stdout>>

vars == <<properties, extra_ptr_checks, pc, has_reachable_unsupported_constructs,
          has_failed_unwinding_asserts, properties_with_undefined,
          has_reachable_undefined_functions, properties_without_reachs, reach_checks,
          properties_without_sanity_checks, properties_annotated, properties_without_ids,
          new_properties, has_fundamental_failures, final_properties, overall_result,
          stream, stream_end, input_so_far, item, trans_item, output_format, result, stdout>>

\* call_loop is not running
LoopIdle ==
    /\ stream = <<>>
    /\ stream_end = "eof"
    /\ input_so_far = <<>>
    /\ item = None
    /\ trans_item = None
    /\ output_format = "Regular"
    /\ result = FALSE
    /\ stdout = <<>>

\* postprocess_result is not running
PostIdle ==
    /\ properties = <<>>
    /\ has_reachable_unsupported_constructs = FALSE
    /\ has_failed_unwinding_asserts = FALSE
    /\ properties_with_undefined = <<>>
    /\ has_reachable_undefined_functions = FALSE
    /\ properties_without_reachs = <<>>
    /\ reach_checks = <<>>
    /\ properties_without_sanity_checks = <<>>
    /\ properties_annotated = <<>>
    /\ properties_without_ids = <<>>
    /\ new_properties = <<>>
    /\ has_fundamental_failures = FALSE
    /\ final_properties = <<>>
    /\ overall_result = FALSE

Init ==
    /\ properties \in {Deserialize(b) : b \in Batches(MaxBatch)}
    /\ extra_ptr_checks \in BOOLEAN
    /\ pc = "scan"
    /\ has_reachable_unsupported_constructs = FALSE
    /\ has_failed_unwinding_asserts = FALSE
    /\ properties_with_undefined = <<>>
    /\ has_reachable_undefined_functions = FALSE
    /\ properties_without_reachs = <<>>
    /\ reach_checks = <<>>
    /\ properties_without_sanity_checks = <<>>
    /\ properties_annotated = <<>>
    /\ properties_without_ids = <<>>
    /\ new_properties = <<>>
    /\ has_fundamental_failures = FALSE
    /\ final_properties = <<>>
    /\ overall_result = FALSE
    /\ LoopIdle

\* lines 626-628
ScanFaults ==
    /\ pc = "scan"
    /\ has_reachable_unsupported_constructs' =
          has_check_failures(properties, UNSUPPORTED_CONSTRUCT_DESC)
    /\ has_failed_unwinding_asserts' = has_check_failures(properties, UNWINDING_ASSERT_DESC)
    /\ pc' = "undefined"
    /\ UNCHANGED loop_vars
    /\ UNCHANGED <<properties, extra_ptr_checks, properties_with_undefined,
                   has_reachable_undefined_functions, properties_without_reachs, reach_checks,
                   properties_without_sanity_checks, properties_annotated,
                   properties_without_ids, new_properties, has_fundamental_failures,
                   final_properties, overall_result>>

\* lines 630-631
ModifyUndefined ==
    /\ pc = "undefined"
    /\ LET r == modify_undefined_function_checks(properties)
       IN  /\ pc' = IF r.panic THEN "panicked" ELSE "reach"
           /\ properties_with_undefined' = r.properties
           /\ has_reachable_undefined_functions' = r.flag
    /\ UNCHANGED loop_vars
    /\ UNCHANGED <<properties, extra_ptr_checks, has_reachable_unsupported_constructs,
                   has_failed_unwinding_asserts, properties_without_reachs, reach_checks,
                   properties_without_sanity_checks, properties_annotated,
                   properties_without_ids, new_properties, has_fundamental_failures,
                   final_properties, overall_result>>

\* line 633
FilterReach ==
    /\ pc = "reach"
    /\ LET r == filter_reach_checks(properties_with_undefined)
       IN  /\ properties_without_reachs' = r[1]
           /\ reach_checks' = r[2]
    /\ pc' = "sanity"
    /\ UNCHANGED loop_vars
    /\ UNCHANGED <<properties, extra_ptr_checks, has_reachable_unsupported_constructs,
                   has_failed_unwinding_asserts, properties_with_undefined,
                   has_reachable_undefined_functions, properties_without_sanity_checks,
                   properties_annotated, properties_without_ids, new_properties,
                   has_fundamental_failures, final_properties, overall_result>>

\* line 636
FilterSanity ==
    /\ pc = "sanity"
    /\ LET r == filter_sanity_checks(properties_without_reachs)
       IN  /\ pc' = IF r.panic THEN "panicked" ELSE "annotate"
           /\ properties_without_sanity_checks' = r.properties
    /\ UNCHANGED loop_vars
    /\ UNCHANGED <<properties, extra_ptr_checks, has_reachable_unsupported_constructs,
                   has_failed_unwinding_asserts, properties_with_undefined,
                   has_reachable_undefined_functions, properties_without_reachs, reach_checks,
                   properties_annotated, properties_without_ids, new_properties,
                   has_fundamental_failures, final_properties, overall_result>>

\* lines 638-639
Annotate ==
    /\ pc = "annotate"
    /\ LET r == annotate_properties_with_reach_results(properties_without_sanity_checks,
                                                       reach_checks)
       IN  /\ pc' = IF r.panic THEN "panicked" ELSE "ids"
           /\ properties_annotated' = r.properties
    /\ UNCHANGED loop_vars
    /\ UNCHANGED <<properties, extra_ptr_checks, has_reachable_unsupported_constructs,
                   has_failed_unwinding_asserts, properties_with_undefined,
                   has_reachable_undefined_functions, properties_without_reachs, reach_checks,
                   properties_without_sanity_checks, properties_without_ids, new_properties,
                   has_fundamental_failures, final_properties, overall_result>>

\* line 641
RemoveIds ==
    /\ pc = "ids"
    /\ properties_without_ids' = remove_check_ids_from_description(properties_annotated)
    /\ pc' = "ptr"
    /\ UNCHANGED loop_vars
    /\ UNCHANGED <<properties, extra_ptr_checks, has_reachable_unsupported_constructs,
                   has_failed_unwinding_asserts, properties_with_undefined,
                   has_reachable_undefined_functions, properties_without_reachs, reach_checks,
                   properties_without_sanity_checks, properties_annotated, new_properties,
                   has_fundamental_failures, final_properties, overall_result>>

\* lines 644-651
FilterPtr ==
    /\ pc = "ptr"
    /\ new_properties' = IF ~extra_ptr_checks
                         THEN filter_ptr_checks(properties_without_ids)
                         ELSE properties_without_ids
    /\ has_fundamental_failures' = (\/ has_reachable_unsupported_constructs
                                    \/ has_failed_unwinding_asserts
                                    \/ has_reachable_undefined_functions)
    /\ pc' = "final"
    /\ UNCHANGED loop_vars
    /\ UNCHANGED <<properties, extra_ptr_checks, has_reachable_unsupported_constructs,
                   has_failed_unwinding_asserts, properties_with_undefined,
                   has_reachable_undefined_functions, properties_without_reachs, reach_checks,
                   properties_without_sanity_checks, properties_annotated,
                   properties_without_ids, final_properties, overall_result>>

\* line 652
FinalChanges ==
    /\ pc = "final"
    /\ LET r == final_changes(new_properties, has_fundamental_failures)
       IN  /\ pc' = IF r.panic THEN "panicked" ELSE "result"
           /\ final_properties' = r.properties
    /\ UNCHANGED loop_vars
    /\ UNCHANGED <<properties, extra_ptr_checks, has_reachable_unsupported_constructs,
                   has_failed_unwinding_asserts, properties_with_undefined,
                   has_reachable_undefined_functions, properties_without_reachs, reach_checks,
                   properties_without_sanity_checks, properties_annotated,
                   properties_without_ids, new_properties, has_fundamental_failures,
                   overall_result>>

\* lines 654-655
DetermineResult ==
    /\ pc = "result"
    /\ overall_result' = determine_result(final_properties)
    /\ pc' = "done"
    /\ UNCHANGED loop_vars
    /\ UNCHANGED <<properties, extra_ptr_checks, has_reachable_unsupported_constructs,
                   has_failed_unwinding_asserts, properties_with_undefined,
                   has_reachable_undefined_functions, properties_without_reachs, reach_checks,
                   properties_without_sanity_checks, properties_annotated,
                   properties_without_ids, new_properties, has_fundamental_failures,
                   final_properties>>

Next ==
    \/ ScanFaults
    \/ ModifyUndefined
    \/ FilterReach
    \/ FilterSanity
    \/ Annotate
    \/ RemoveIds
    \/ FilterPtr
    \/ FinalChanges
    \/ DetermineResult

Spec == Init /\ [][Next]_vars

(***************************************************************************)
(* call_loop as a state machine: the child process writes a stream of      *)
(* lines; one step per read of Parser::next, the loop body in steps, the   *)
(* call of postprocess_result taking the steps of the pipeline above       *)
(***************************************************************************)
MaxChunks == 2

OPEN_BRACE == <<" ", " ", "{", "\n">>
CLOSE_COMMA == <<" ", " ", "}", ",", "\n">>
CLOSE_LAST == <<" ", " ", "}", "\n">>
CLOSE_NO_NEWLINE == <<" ", " ", "}">>

member_line(member, comma) ==
    <<" ", " ", " ", " ", member>> \o (IF comma THEN <<",">> ELSE <<>>) \o <<"\n">>

\* the lines of one pretty-printed object of the top-level array
ObjectLines(members, close) ==
    <<OPEN_BRACE>>
    \o [k \in 1..Len(members) |-> member_line(members[k], k < Len(members))]
    \o <<close>>

\* what the child process may write between two reads of interest
Chunks ==
    { << <<"[", "\n">> >>,
      << <<"]", "\n">> >>,
      ObjectLines(<<"program: CBMC">>, CLOSE_COMMA),
      ObjectLines(<<"program: CBMC">>, CLOSE_NO_NEWLINE),
      ObjectLines(<<"messageText: hello", "messageType: STATUS-MESSAGE">>, CLOSE_COMMA),
      ObjectLines(<<"messageText: VERIFICATION FAILED", "messageType: STATUS-MESSAGE">>,
                  CLOSE_COMMA),
      ObjectLines(<<"messageText: too many addressed objects", "messageType: ERROR">>,
                  CLOSE_COMMA),
      ObjectLines(<<"messageText: Building error trace", "messageType: STATUS-MESSAGE">>,
                  CLOSE_COMMA),
      ObjectLines(<<"messageText: too many addressed objects",
                    "messageType: STATUS-MESSAGE">>, CLOSE_COMMA),
      ObjectLines(<<"messageText: hello", "messageType: ERROR">>, CLOSE_COMMA),
      ObjectLines(<<"program: VERIFICATION">>, CLOSE_COMMA),
      ObjectLines(<<"result: ok">>, CLOSE_COMMA),
      ObjectLines(<<"result: failed">>, CLOSE_COMMA),
      ObjectLines(<<"result: duplicate marker">>, CLOSE_COMMA),
      ObjectLines(<<"cProverStatus: success">>, CLOSE_LAST),
      \* two members with no "," between them
      <<OPEN_BRACE, member_line("messageText: hello", FALSE),
        member_line("messageType: STATUS-MESSAGE", FALSE), CLOSE_COMMA>>,
      \* the process stops writing inside an object
      <<OPEN_BRACE, member_line("program: CBMC", FALSE)>> }

RECURSIVE Streams(_)
Streams(n) ==
    IF n = 0 THEN {<<>>}
    ELSE Streams(n - 1) \cup {s \o c : s \in Streams(n - 1), c \in Chunks}

InitLoop ==
    /\ stream \in Streams(MaxChunks)
    /\ stream_end \in {"eof", "err"}
    /\ output_format \in {"Regular", "Terse", "Old"}
    /\ extra_ptr_checks \in BOOLEAN
    /\ pc = "next"
    /\ input_so_far = <<>>
    /\ item = None
    /\ trans_item = None
    /\ result = FALSE
    /\ stdout = <<>>
    /\ PostIdle

\* Parser::next, read_line gives Ok(len) with len > 0: lines 398-408
ReadLine ==
    /\ pc = "next"
    /\ stream # <<>>
    /\ LET r == process_line(input_so_far, Head(stream))
       IN  /\ input_so_far' = r.input_so_far
           /\ item' = r.item
           /\ pc' = IF r.panic THEN "panicked"
                    ELSE IF is_some(r.item) THEN "body" ELSE "next"
    /\ stream' = Tail(stream)
    /\ UNCHANGED <<stream_end, trans_item, output_format, result, stdout>>
    /\ UNCHANGED <<properties, extra_ptr_checks>>
    /\ UNCHANGED post_vars

\* Parser::next, read_line gives Ok(0): next returns None, the for loop
\* ends and call_loop returns result: lines 399-401, 466
EndOfStream ==
    /\ pc = "next"
    /\ stream = <<>>
    /\ stream_end = "eof"
    /\ pc' = "returned"
    /\ UNCHANGED loop_vars
    /\ UNCHANGED <<properties, extra_ptr_checks>>
    /\ UNCHANGED post_vars

\* a read failure taken for the end of the stream
ReadError_as_end ==
    /\ pc = "next"
    /\ stream = <<>>
    /\ stream_end = "err"
    /\ pc' = "returned"
    /\ UNCHANGED loop_vars
    /\ UNCHANGED <<properties, extra_ptr_checks>>
    /\ UNCHANGED post_vars

\* Parser::next, read_line gives Err: lines 409-411
ReadError ==
    /\ pc = "next"
    /\ stream = <<>>
    /\ stream_end = "err"
    /\ pc' = "panicked"
    /\ UNCHANGED loop_vars
    /\ UNCHANGED <<properties, extra_ptr_checks>>
    /\ UNCHANGED post_vars

\* process_item assigning the verdict from the raw batch, before the pipeline
ProcessItem_early_verdict ==
    /\ pc = "body"
    /\ item' = None
    /\ IF must_be_skipped(unwrap(item))
       THEN /\ pc' = "next"
            /\ UNCHANGED <<trans_item, properties, result>>
       ELSE IF unwrap(item).kind = "Result"
       THEN /\ properties' = unwrap(item).result
            /\ result' = determine_result(unwrap(item).result)
            /\ pc' = "scan"
            /\ UNCHANGED trans_item
       ELSE /\ trans_item' = Some(IF unwrap(item).message_type = <<"ERROR">>
                                  THEN postprocess_error_message(unwrap(item))
                                  ELSE unwrap(item))
            /\ pc' = "format"
            /\ UNCHANGED <<properties, result>>
    /\ UNCHANGED <<stream, stream_end, input_so_far, output_format, stdout>>
    /\ UNCHANGED extra_ptr_checks
    /\ UNCHANGED post_vars

\* the body of the for loop up to the call of postprocess_result: must_be_skipped
\* and the match of process_item: lines 452-456, 418-420, 425-428
ProcessItem ==
    /\ pc = "body"
    /\ item' = None
    /\ IF must_be_skipped(unwrap(item))
       THEN /\ pc' = "next"
            /\ UNCHANGED <<trans_item, properties>>
       ELSE IF unwrap(item).kind = "Result"
       THEN /\ properties' = unwrap(item).result
            /\ pc' = "scan"
            /\ UNCHANGED trans_item
       ELSE /\ trans_item' = Some(IF unwrap(item).message_type = <<"ERROR">>
                                  THEN postprocess_error_message(unwrap(item))
                                  ELSE unwrap(item))
            /\ pc' = "format"
            /\ UNCHANGED properties
    /\ UNCHANGED <<stream, stream_end, input_so_far, output_format, result, stdout>>
    /\ UNCHANGED extra_ptr_checks
    /\ UNCHANGED post_vars

\* postprocess_result has returned to process_item: lines 421-423
ReturnResult ==
    /\ pc = "done"
    /\ result' = overall_result
    /\ trans_item' = Some(ParserItem("Result", <<>>, <<>>, final_properties))
    /\ pc' = "format"
    /\ UNCHANGED <<stream, stream_end, input_so_far, item, output_format, stdout>>
    /\ UNCHANGED <<properties, extra_ptr_checks>>
    /\ UNCHANGED post_vars

\* the rest of the body: format_item and println!: lines 460-463
FormatItem ==
    /\ pc = "format"
    /\ LET f == format_item(unwrap(trans_item), output_format)
       IN  /\ pc' = IF f.panic THEN "panicked" ELSE "next"
           /\ stdout' = IF ~f.panic /\ is_some(f.text)
                        THEN Append(stdout, unwrap(f.text))
                        ELSE stdout
    /\ UNCHANGED <<stream, stream_end, input_so_far, item, trans_item, output_format, result>>
    /\ UNCHANGED <<properties, extra_ptr_checks>>
    /\ UNCHANGED post_vars

NextLoop ==
    \/ ReadLine
    \/ EndOfStream
    \/ ReadError
    \/ ProcessItem
    \/ Next
    \/ ReturnResult
    \/ FormatItem

SpecLoop == InitLoop /\ [][NextLoop]_vars

(***************************************************************************)
(* One turn of call_loop's body on an item the parser has just returned,   *)
(* the checks of a batch carrying traces                                   *)
(***************************************************************************)
MaxFmtBatch == 3

StepAt(source_location) == TraceItem(0, "assignment", FALSE, source_location)

FirstStep == StepAt(Some(SourceLocation(Some(<<"lib.rs">>), Some(<<"helper">>),
                                        Some(<<"7">>), None)))

TraceTo(last_location) == Some(<<FirstStep, StepAt(last_location)>>)

\* the checks a traced batch is drawn from, as <<description, qualified id,
\* source location, status, trace>>
FormatChecks ==
    { <<<<"holds">>, Qid(<<"assertion">>), InFile, "Success", None>>,
      <<<<"no trace">>, Qid(<<"assertion">>), InFile, "Failure", None>>,
      <<<<"full">>, Qid(<<"assertion">>), NoFile, "Failure",
        TraceTo(Some(SourceLocation(Some(<<"main.rs">>), Some(<<"main">>),
                                    Some(<<"9">>), None)))>>,
      <<<<"no function">>, Qid(<<"assertion">>), InFile, "Failure",
        TraceTo(Some(SourceLocation(Some(<<"main.rs">>), None, Some(<<"9">>), None)))>>,
      <<<<"no file">>, Qid(<<"assertion">>), InFile, "Failure",
        TraceTo(Some(SourceLocation(None, Some(<<"main">>), Some(<<"9">>), None)))>>,
      <<<<"no line">>, Qid(<<"assertion">>), InFile, "Failure",
        TraceTo(Some(SourceLocation(Some(<<"main.rs">>), Some(<<"main">>), None, None)))>>,
      <<<<"no location">>, Qid(<<"assertion">>), InFile, "Failure", TraceTo(None)>>,
      <<<<"empty trace">>, Qid(<<"assertion">>), InFile, "Failure", Some(<<>>)>>,
      <<<<"unknown">>, Qid(<<"assertion">>),
        SourceLocation(None, Some(<<"main">>), Some(<<"3">>), None), "Undetermined", None>>,
      <<<<"dead">>, Qid(<<"assertion">>), InFile, "Unreachable", None>>,
      <<<<"call ">> \o UNSUPPORTED_CONSTRUCT_DESC, Qid(<<"assertion">>), InFile, "Failure",
        None>>,
      <<<<"cast ">> \o UNSUPPORTED_CONSTRUCT_DESC, Qid(<<"assertion">>), InFile, "Success",
        None>>,
      <<UNWINDING_ASSERT_DESC \o <<" 0">>, Qid(<<"unwind">>), InFile, "Failure", None>> }

RECURSIVE FormatBatches(_)
FormatBatches(n) ==
    IF n = 0 THEN {<<>>}
    ELSE FormatBatches(n - 1)
            \cup {Append(b, c) : b \in {x \in FormatBatches(n - 1) : Len(x) = n - 1},
                                 c \in FormatChecks}

\* Vec<Property> as deserialized from a "result" array with "trace" members
DeserializeTraced(batch) ==
    [i \in DOMAIN batch |->
        [Property(batch[i][1], batch[i][2], batch[i][3], batch[i][4], i)
            EXCEPT !.trace = batch[i][5]]]

FormatItems ==
    {ParserItem("Result", <<>>, <<>>, DeserializeTraced(b)) : b \in FormatBatches(MaxFmtBatch)}
       \cup {ParserItem("Program", <<"CBMC 5.x">>, <<>>, <<>>),
             ParserItem("Message", <<"hello">>, <<"STATUS-MESSAGE">>, <<>>),
             ParserItem("ProverStatus", <<"success">>, <<>>, <<>>)}

InitFormat ==
    /\ item \in {Some(it) : it \in FormatItems}
    /\ output_format \in {"Regular", "Terse", "Old"}
    /\ extra_ptr_checks = FALSE
    /\ pc = "body"
    /\ stream = <<>>
    /\ stream_end = "eof"
    /\ input_so_far = <<>>
    /\ trans_item = None
    /\ result = FALSE
    /\ stdout = <<>>
    /\ PostIdle

NextFormat ==
    \/ ProcessItem
    \/ Next
    \/ ReturnResult
    \/ FormatItem
    \/ EndOfStream

SpecFormat == InitFormat /\ [][NextFormat]_vars

(***************************************************************************)
(* postprocess_result on batches drawn for the stages that rewrite         *)
(* descriptions and for the partition                                      *)
(***************************************************************************)
MaxStageBatch == 2

StageChecks ==
    { \* modify_undefined_function_checks
      <<ASSERTION_FALSE, Qid(<<"assertion">>), NoFile, "Failure">>,
      <<<<"x", " ">> \o ASSERTION_FALSE, Qid(<<"assertion">>), NoFile, "Failure">>,
      <<ASSERTION_FALSE, Qid(<<"assertion">>), InFile, "Failure">>,
      <<ASSERTION_FALSE, Qid(<<"precondition_instance">>), NoFile, "Failure">>,
      \* get_readable_description
      <<<<"array ", "upper bound", " in a[i]">>, Qid(<<"array_bounds">>), InFile, "Failure">>,
      <<<<"upper bound", " or ", "lower bound">>, Qid(<<"array_bounds">>), InFile, "Success">>,
      <<<<"division by zero">>, Qid(<<"division-by-zero">>), InFile, "Success">>,
      <<<<"upper bound">>, Qid(<<"error_label">>), InFile, "Success">>,
      <<<<"msg">>, Qid(<<"array_bounds">>), InFile, "Success">>,
      \* the check-id token
      <<Token(IdA) \o <<" ", "msg">>, Qid(<<"assertion">>), InFile, "Success">>,
      <<<<"msg", " ">> \o Token(IdA), Qid(<<"assertion">>), InFile, "Success">>,
      <<Token(IdA) \o <<" ">> \o Token(IdB) \o <<" ", "msg">>, Qid(<<"assertion">>), InFile,
        "Success">>,
      <<Token(IdA) \o <<" ", "msg", "\n">> \o Token(IdB) \o <<" ", "more">>,
        Qid(<<"assertion">>), InFile, "Success">>,
      \* reachability markers
      <<MarkerDesc(IdA), Qid(<<"reachability_check">>), InFile, "Success">>,
      <<MarkerDesc(IdB), Qid(<<"reachability_check">>), InFile, "Failure">>,
      <<MarkerDesc(IdB) \o <<" ">> \o UNSUPPORTED_CONSTRUCT_DESC, Qid(<<"reachability_check">>),
        InFile, "Failure">> }

RECURSIVE StageBatches(_)
StageBatches(n) ==
    IF n = 0 THEN {<<>>}
    ELSE StageBatches(n - 1)
            \cup {Append(b, c) : b \in {x \in StageBatches(n - 1) : Len(x) = n - 1},
                                 c \in StageChecks}

InitStages ==
    /\ properties \in {Deserialize(b) : b \in StageBatches(MaxStageBatch)}
    /\ extra_ptr_checks \in BOOLEAN
    /\ pc = "scan"
    /\ has_reachable_unsupported_constructs = FALSE
    /\ has_failed_unwinding_asserts = FALSE
    /\ properties_with_undefined = <<>>
    /\ has_reachable_undefined_functions = FALSE
    /\ properties_without_reachs = <<>>
    /\ reach_checks = <<>>
    /\ properties_without_sanity_checks = <<>>
    /\ properties_annotated = <<>>
    /\ properties_without_ids = <<>>
    /\ new_properties = <<>>
    /\ has_fundamental_failures = FALSE
    /\ final_properties = <<>>
    /\ overall_result = FALSE
    /\ LoopIdle

SpecStages == InitStages /\ [][Next]_vars

(***************************************************************************)
(* Vocabulary of the properties, stated on the input batch and not with    *)
(* the operators of the pipeline                                           *)
(***************************************************************************)
Completed == pc = "done"

\* the input check a pipeline check comes from
Input(prop) == properties[prop.origin]

\* the category: the second-to-last segment of the qualified id
WellFormedId(prop) == Len(prop.property) >= 2

Category(prop) == prop.property[Len(prop.property) - 1]

IsMarker(prop) == contains(prop.description, REACH_CHECK_DESC)

IsPtrCategory(prop) ==
    /\ WellFormedId(prop)
    /\ \/ contains(Category(prop), <<"pointer_arithmetic">>)
       \/ contains(Category(prop), <<"pointer_primitives">>)

\* one of the three global fault flags is raised for the input batch
InputFault ==
    \E i \in DOMAIN properties :
        /\ properties[i].status = "Failure"
        /\ \/ contains(properties[i].description, UNSUPPORTED_CONSTRUCT_DESC)
           \/ contains(properties[i].description, UNWINDING_ASSERT_DESC)
           \/ /\ contains(properties[i].description, ASSERTION_FALSE)
              /\ WellFormedId(properties[i])
              /\ Category(properties[i]) = DEFAULT_ASSERTION
              /\ properties[i].source_location.file = None

HasFailure(props) == \E k \in DOMAIN props : props[k].status = "Failure"

\* C1: when postprocess_result completes, the verdict is true if and only
\* if no finalized check has status Failure.
C1_VerdictIffNoFailure ==
    Completed => (overall_result <=> ~HasFailure(final_properties))

\* C1 witness: a completed run with a false verdict whose finalized list
\* holds a Failure next to a check that is not a Failure.
C1_Witness ==
    /\ Completed
    /\ ~overall_result
    /\ HasFailure(final_properties)
    /\ \E k \in DOMAIN final_properties : final_properties[k].status = "Undetermined"

\* the lists the stages produce, in the order of the stages
StageLists ==
    <<properties_with_undefined, properties_without_reachs, reach_checks,
      properties_without_sanity_checks, properties_annotated, properties_without_ids,
      new_properties, final_properties>>

\* C2: a failing check is never turned into a pass.  On completion every
\* input Failure that is neither a marker nor, with extra-pointer-checks
\* false, of a pointer category is finalized with status Failure and the
\* verdict is false; and no stage's list holds a check whose input status
\* was Failure with any other status.
C2_FailureKept ==
    /\ Completed =>
          \A i \in DOMAIN properties :
              (/\ properties[i].status = "Failure"
               /\ ~IsMarker(properties[i])
               /\ (extra_ptr_checks \/ ~IsPtrCategory(properties[i])))
              => /\ \E k \in DOMAIN final_properties :
                       /\ final_properties[k].origin = i
                       /\ final_properties[k].status = "Failure"
                 /\ overall_result = FALSE
    /\ \A n \in DOMAIN StageLists : \A k \in DOMAIN StageLists[n] :
          Input(StageLists[n][k]).status = "Failure" => StageLists[n][k].status = "Failure"

\* C2 witness: a completed run with extra-pointer-checks false whose batch
\* holds a Failure of a pointer category and a Failure that was rewritten
\* as an undefined-function check and is finalized as Failure.
C2_Witness ==
    /\ Completed
    /\ ~extra_ptr_checks
    /\ \E i \in DOMAIN properties : properties[i].status = "Failure" /\ IsPtrCategory(properties[i])
    /\ \E k \in DOMAIN final_properties :
          /\ final_properties[k].status = "Failure"
          /\ final_properties[k].description = UNDEFINED_FUNCTION_DESC
    /\ overall_result = FALSE

\* C3: if a fault flag is raised for the batch, no finalized check has
\* status Success: a remaining check that was Success ends Undetermined,
\* and none is promoted to Unreachable, whatever its reach.
C3_FaultForcesUndetermined ==
    (Completed /\ InputFault) =>
        \A k \in DOMAIN final_properties :
            /\ final_properties[k].status # "Success"
            /\ Input(final_properties[k]).status = "Success"
                  => final_properties[k].status = "Undetermined"
            /\ final_properties[k].status = "Unreachable"
                  => Input(final_properties[k]).status = "Unreachable"

\* C3 witness: a fault flag is raised and a check that was Success with
\* reach Success ended Undetermined.
C3_Witness ==
    /\ Completed
    /\ InputFault
    /\ \E k \in DOMAIN final_properties :
          /\ Input(final_properties[k]).status = "Success"
          /\ final_properties[k].reach = Some("Success")
          /\ final_properties[k].status = "Undetermined"

\* the real check with a token and its marker, both Success (scenario C)
ScenarioC ==
    Deserialize(<< <<MarkerDesc(IdA), Qid(<<"reachability_check">>), InFile, "Success">>,
                   <<Token(IdA) \o <<" ", "msg">>, Qid(<<"assertion">>), InFile, "Success">> >>)

\* C4: with no fault flag raised, a finalized check has had its status
\* changed to Unreachable if and only if its reach is Success, and then its
\* own status was Success; a check whose reach is unset or not Success
\* keeps its status.  A Success marker plus a Success assertion check with
\* the marker's token yields that check alone, Unreachable.
C4_PromotedIffReachSuccess ==
    /\ (Completed /\ ~InputFault) =>
          \A k \in DOMAIN final_properties :
              LET prop == final_properties[k]
              IN  /\ prop.reach = Some("Success")
                        => /\ Input(prop).status = "Success"
                           /\ prop.status = "Unreachable"
                  /\ prop.reach # Some("Success") => prop.status = Input(prop).status
    /\ (Completed /\ properties = ScenarioC) =>
          /\ Len(final_properties) = 1
          /\ final_properties[1].origin = 2
          /\ final_properties[1].status = "Unreachable"

\* C4 witness: no fault flag, one check promoted from Success to
\* Unreachable and another, whose reach is not Success, that kept Failure.
C4_Witness ==
    /\ Completed
    /\ ~InputFault
    /\ \E k \in DOMAIN final_properties :
          /\ Input(final_properties[k]).status = "Success"
          /\ final_properties[k].reach = Some("Success")
          /\ final_properties[k].status = "Unreachable"
    /\ \E k \in DOMAIN final_properties :
          /\ final_properties[k].reach # Some("Success")
          /\ final_properties[k].status = "Failure"

\* a remaining check that final_changes must not promote
BadPromotion(prop) == prop.reach = Some("Success") /\ prop.status # "Success"

\* C5: promotion happens only from Success.  With no fault flag raised, a
\* run whose remaining checks hold one with reach Success and a status
\* other than Success does not get past final_changes: it panics, and so
\* yields no finalized list and no verdict.
C5_PromotionOnlyFromSuccess ==
    /\ (pc \in {"result", "done"} /\ ~InputFault) =>
          \A k \in DOMAIN new_properties : ~BadPromotion(new_properties[k])
    /\ pc = "panicked" => final_properties = <<>> /\ overall_result = FALSE

\* C5 witness: the run panicked in final_changes on a remaining check with
\* reach Success and status Undetermined or Failure.
C5_Witness ==
    /\ pc = "panicked"
    /\ ~InputFault
    /\ \E k \in DOMAIN new_properties :
          /\ BadPromotion(new_properties[k])
          /\ new_properties[k].status = "Undetermined"

\* the check-id a marker embeds
MarkerId(prop) == reach_id_capture(prop.description)

DuplicateMarkers(props) ==
    \E i, j \in DOMAIN props :
        /\ i < j
        /\ IsMarker(props[i]) /\ IsMarker(props[j])
        /\ MarkerId(props[i]) # <<>>
        /\ MarkerId(props[i]) = MarkerId(props[j])

\* C6: a batch with two marker checks embedding the same check-id never
\* gets past the correlation stage, whatever the markers' statuses.
C6_DuplicateMarkerFatal ==
    pc \in {"ids", "ptr", "final", "result", "done"} => ~DuplicateMarkers(properties)

\* C6 witness: the run panicked in the correlation stage on two markers
\* with the same id and the same status.
C6_Witness ==
    /\ pc = "panicked"
    /\ \A k \in DOMAIN properties_without_reachs : WellFormedId(properties_without_reachs[k])
    /\ \E i, j \in DOMAIN reach_checks :
          /\ i < j
          /\ MarkerId(reach_checks[i]) = MarkerId(reach_checks[j])
          /\ reach_checks[i].status = reach_checks[j].status
    /\ properties_without_sanity_checks # <<>>

\* the bracket-delimited check-id tokens of a text, each with its position
TokenEnd(s, i) == Min({k \in i..Len(s) : s[k] = "]"})

TokenStarts(s) ==
    {i \in 1..Len(s) : /\ HasAt(s, i, <<"[", "KANI_CHECK_ID", "_">>)
                       /\ \E k \in (i + 3)..Len(s) : s[k] = "]"}

Tokens(s) == {SubSeq(s, i, TokenEnd(s, i)) : i \in TokenStarts(s)}

FirstToken(s) ==
    IF TokenStarts(s) = {} THEN {}
    ELSE {SubSeq(s, Min(TokenStarts(s)), TokenEnd(s, Min(TokenStarts(s))))}

\* the markers of the batch whose id, in brackets, is one of the tokens
MarkersOf(tokens) ==
    {m \in DOMAIN properties :
        /\ IsMarker(properties[m])
        /\ <<"[">> \o MarkerId(properties[m]) \o <<"]">> \in tokens}

Correlated == pc \in {"ids", "ptr", "final", "result", "done"}

\* C7 as stated: after correlation a real check embedding a token equal to
\* some marker's id has that marker's status as reach, and a real check
\* with no such token has reach unset.
C7_AnyTokenCorrelates ==
    Correlated =>
        \A k \in DOMAIN properties_annotated :
            LET markers == MarkersOf(Tokens(Input(properties_annotated[k]).description))
            IN  /\ \A m \in markers : properties_annotated[k].reach = Some(properties[m].status)
                /\ markers = {} => properties_annotated[k].reach = None

\* C7 amended: after correlation a real check whose first token equals
\* some marker's id has that marker's status as reach, and a real check
\* with no token, or whose first token matches no marker, has reach unset;
\* wherever the marker stands in the batch.
C7_FirstTokenCorrelates ==
    Correlated =>
        \A k \in DOMAIN properties_annotated :
            LET markers == MarkersOf(FirstToken(Input(properties_annotated[k]).description))
            IN  /\ \A m \in markers : properties_annotated[k].reach = Some(properties[m].status)
                /\ markers = {} => properties_annotated[k].reach = None

\* C7 witness: a real check got reach Failure from a marker that stands
\* after it in the batch, and another real check has reach unset.
C7_Witness ==
    /\ Correlated
    /\ \E k \in DOMAIN properties_annotated : \E m \in DOMAIN properties :
          /\ IsMarker(properties[m])
          /\ properties_annotated[k].origin < m
          /\ properties[m].status = "Failure"
          /\ properties_annotated[k].reach = Some("Failure")
    /\ \E k \in DOMAIN properties_annotated : properties_annotated[k].reach = None

\* C8 as stated: a batch holding any check whose qualified id has fewer
\* than two segments never completes.
C8_AnyMalformedIdFatal ==
    Completed => \A i \in DOMAIN properties : WellFormedId(properties[i])

\* C8 amended: a batch never completes if it holds a check with fewer than
\* two segments that is not a marker or whose description contains
\* "assertion false"; and no finalized check has such an id.  (A marker
\* with such an id is dropped with the other markers.)
C8_MalformedRealIdFatal ==
    Completed =>
        /\ \A i \in DOMAIN properties :
              (\/ ~IsMarker(properties[i])
               \/ contains(properties[i].description, ASSERTION_FALSE))
              => WellFormedId(properties[i])
        /\ \A k \in DOMAIN final_properties : WellFormedId(final_properties[k])

\* C8 witness: a run panicked on a real check with a one-segment id, in
\* the first stage that extracts its category.
C8_Witness ==
    /\ pc = "panicked"
    /\ reach_checks # <<>>
    /\ \E k \in DOMAIN properties_without_reachs : ~WellFormedId(properties_without_reachs[k])
    /\ properties_without_sanity_checks = <<>>

\* C9: the finalized list is a subsequence of the input batch: its checks
\* come from distinct input checks, in input order, with their qualified
\* id and location, so there are no more of them than input checks.
C9_FinalIsSubsequence ==
    Completed =>
        /\ \A k \in DOMAIN final_properties :
              /\ final_properties[k].origin \in DOMAIN properties
              /\ final_properties[k].property = Input(final_properties[k]).property
              /\ final_properties[k].source_location = Input(final_properties[k]).source_location
        /\ \A k, l \in DOMAIN final_properties :
              k < l => final_properties[k].origin < final_properties[l].origin
        /\ Len(final_properties) <= Len(properties)

\* C9 witness: a completed run that kept two checks and dropped a marker
\* standing before them.
C9_Witness ==
    /\ Completed
    /\ Len(final_properties) = 2
    /\ Len(properties) = 3
    /\ IsMarker(properties[1])

\* the checks of a list that are not of a pointer category
WithoutPtr(props) == SelectSeq(props, LAMBDA prop : ~IsPtrCategory(prop))

\* C10: with extra-pointer-checks false no finalized check is of a pointer
\* category; with it true every check left after the id stripping is
\* finalized; and when the batch completes under both values of the flag,
\* the list under false is the list under true without the checks of the
\* pointer categories.
C10_PtrChecksFilter ==
    Completed =>
        /\ ~extra_ptr_checks =>
              \A k \in DOMAIN final_properties : ~IsPtrCategory(final_properties[k])
        /\ extra_ptr_checks =>
              /\ Len(final_properties) = Len(properties_without_ids)
              /\ \A k \in DOMAIN final_properties :
                    final_properties[k].origin = properties_without_ids[k].origin
        /\ LET other == postprocess_result(properties, ~extra_ptr_checks)
           IN  ~other.panic =>
                  IF extra_ptr_checks
                  THEN other.properties = WithoutPtr(final_properties)
                  ELSE final_properties = WithoutPtr(other.properties)

\* C10 witness: a completed run with the flag false that dropped a check
\* of a pointer category and kept another check, on a batch that also
\* completes with the flag true.
C10_Witness ==
    /\ Completed
    /\ ~extra_ptr_checks
    /\ \E k \in DOMAIN properties_without_ids : IsPtrCategory(properties_without_ids[k])
    /\ final_properties # <<>>
    /\ ~postprocess_result(properties, TRUE).panic

\* one Success check of category sanity_check (scenario B)
ScenarioB == Deserialize(<< <<<<"msg">>, Qid(<<"sanity_check">>), InFile, "Success">> >>)

IsSanityCheck(prop) == WellFormedId(prop) /\ Category(prop) = <<"sanity_check">>

\* C11: on completion a real check of category sanity_check is missing
\* from the finalized list if and only if its status was Success; with any
\* other status it is finalized.  One Success sanity check alone yields no
\* finalized check and a true verdict.
C11_SanityRemovedIffSuccess ==
    /\ Completed =>
          \A i \in DOMAIN properties :
              (IsSanityCheck(properties[i]) /\ ~IsMarker(properties[i]))
              => ((\A k \in DOMAIN final_properties : final_properties[k].origin # i)
                     <=> properties[i].status = "Success")
    /\ (Completed /\ properties = ScenarioB) =>
          final_properties = <<>> /\ overall_result = TRUE

\* C11 witness: a completed run whose batch held a Success sanity check,
\* now gone, and sanity checks with status Failure and Undetermined, kept.
C11_Witness ==
    /\ Completed
    /\ \E i \in DOMAIN properties :
          IsSanityCheck(properties[i]) /\ properties[i].status = "Success"
    /\ \E k \in DOMAIN final_properties :
          IsSanityCheck(final_properties[k]) /\ final_properties[k].status = "Failure"
    /\ \E k \in DOMAIN final_properties :
          IsSanityCheck(final_properties[k]) /\ final_properties[k].status = "Undetermined"

(***************************************************************************)
(* Properties of call_loop and the parser, checked under SpecLoop          *)
(***************************************************************************)
\* a printed text is the report of a batch
IsReport(text) == contains(text, <<"\nVERIFICATION:- ">>)

Halted == pc = "panicked"

Returned == pc = "returned"

IsPrefix(s, t) == Len(s) <= Len(t) /\ SubSeq(t, 1, Len(s)) = s

BeginsWith(line, prefix) == Len(prefix) <= Len(line) /\ SubSeq(line, 1, Len(prefix)) = prefix

\* C12 as stated: whenever the run has halted on a fatal condition no
\* report of a batch has been printed.
C12_HaltedMeansNoReport ==
    Halted => \A k \in DOMAIN stdout : ~IsReport(stdout[k])

\* C12: a report is printed, and the verdict assigned, only for a batch on
\* which the whole pipeline has completed, the verdict being the pipeline's
\* and the report printed by the one formatting step of that batch; the
\* step that halts the run prints nothing, a halted run takes no further
\* step (it returns no verdict), and what was printed stays printed.
C12_ReportOnlyAfterPipeline ==
    [][/\ (result' # result) =>
             /\ pc = "done"
             /\ ~postprocess_result(properties, extra_ptr_checks).panic
             /\ result' = postprocess_result(properties, extra_ptr_checks).result
       /\ (stdout' # stdout /\ IsReport(stdout'[Len(stdout')])) =>
             /\ pc = "format" /\ pc' = "next"
             /\ stdout' = Append(stdout, stdout'[Len(stdout')])
             /\ ~postprocess_result(properties, extra_ptr_checks).panic
             /\ unwrap(trans_item).kind = "Result"
             /\ unwrap(trans_item).result =
                   postprocess_result(properties, extra_ptr_checks).properties
             /\ result = postprocess_result(properties, extra_ptr_checks).result
       /\ (pc' = "panicked") => stdout' = stdout
       /\ ~Halted
       /\ IsPrefix(stdout, stdout')]_vars

\* C12 witness: the run halted inside the pipeline of a batch (a duplicate
\* check id) after a Program record was printed: that text is the whole
\* output, no report.
C12_Witness ==
    /\ Halted
    /\ output_format = "Regular"
    /\ properties = Deserialize(ResultDuplicateMarker)
    /\ stdout = << <<"CBMC 5.x">> >>

\* C13: a line beginning with "[" or "]" leaves the buffer empty and emits
\* no item; a line beginning with the closing marker emits one item parsed
\* from the buffered text and that line, and leaves the buffer empty (or
\* the parse aborts the run); any other line emits nothing and is appended
\* to the buffer.
C13_AccumulateFlush ==
    [][(pc = "next" /\ stream # <<>>) =>
          LET line == Head(stream)
              text == input_so_far \o line
          IN  IF BeginsWith(line, <<"[">>) \/ BeginsWith(line, <<"]">>)
              THEN input_so_far' = <<>> /\ item' = None /\ pc' = "next"
              ELSE IF BeginsWith(line, <<" ", " ", "}">>)
              THEN \/ pc' = "panicked" /\ item' = None
                   \/ /\ pc' = "body"
                      /\ input_so_far' = <<>>
                      /\ is_some(item')
                      /\ item' \in {from_str(text), from_str(SubSeq(text, 1, Len(text) - 2))}
              ELSE input_so_far' = text /\ item' = None /\ pc' = "next"]_vars

\* C13 witness: a second item has been emitted, after the first one was
\* printed, and the buffer is empty.
C13_Witness ==
    /\ pc = "body"
    /\ input_so_far = <<>>
    /\ unwrap(item).kind = "Message"
    /\ stdout = << <<"CBMC 5.x">> >>

\* C14: at a closing marker the item emitted is the parse of the buffered
\* text without its last two characters if that parse succeeds, else the
\* parse of the whole buffered text if that succeeds; if both fail the run
\* aborts and no item is emitted.
C14_ParseTrimmedThenWhole ==
    [][(pc = "next" /\ stream # <<>> /\ BeginsWith(Head(stream), <<" ", " ", "}">>)) =>
          LET text == input_so_far \o Head(stream)
              trimmed == from_str(SubSeq(text, 1, Len(text) - 2))
              whole == from_str(text)
          IN  IF is_some(trimmed) THEN pc' = "body" /\ item' = trimmed
              ELSE IF is_some(whole) THEN pc' = "body" /\ item' = whole
              ELSE pc' = "panicked" /\ item' = None]_vars

\* C14 witness: the run aborted at a closing marker: the buffer holds an
\* object that parses neither trimmed nor whole, after an earlier item
\* was emitted and printed.
C14_Witness ==
    /\ Halted
    /\ input_so_far # <<>>
    /\ BeginsWith(SubSeq(input_so_far, Len(input_so_far) - 4, Len(input_so_far)),
                  <<" ", " ", "}">>)
    /\ ~is_some(from_str(input_so_far))
    /\ ~is_some(from_str(SubSeq(input_so_far, 1, Len(input_so_far) - 2)))
    /\ stdout # <<>>

\* C15: a read at the end of the stream ends the run normally if it gives
\* end-of-stream and aborts it if it fails; either way no item is emitted
\* and nothing is printed by that step, and a run that has ended or
\* aborted takes no further step (no retry, no further item).
C15_ReadEndsOrAborts ==
    [][/\ (pc = "next" /\ stream = <<>>) =>
             /\ pc' = IF stream_end = "eof" THEN "returned" ELSE "panicked"
             /\ item' = None
             /\ stdout' = stdout
             /\ result' = result
       /\ ~Halted
       /\ ~Returned]_vars

\* C15 witness: the run aborted on a read failure after a Program record
\* had been emitted and printed.
C15_Witness ==
    /\ Halted
    /\ stream = <<>>
    /\ stream_end = "err"
    /\ output_format = "Regular"
    /\ input_so_far = <<>>
    /\ properties = <<>>
    /\ stdout = << <<"CBMC 5.x">> >>

(***************************************************************************)
(* Properties of the formatter, checked under SpecFormat                   *)
(***************************************************************************)
\* the item process_item returned is a finalized batch
FinalizedBatch == is_some(trans_item) /\ unwrap(trans_item).kind = "Result"

\* its checks
Finalized == unwrap(trans_item).result

Number(checks, status) == Len(SelectSeq(checks, LAMBDA c : c.status = status))

Positions(text, atom) == {i \in DOMAIN text : text[i] = atom}

\* the n-th position, in order, of a set of positions
NthPosition(positions, n) ==
    CHOOSE q \in positions : Cardinality({x \in positions : x < q}) = n - 1

\* the text from position i on
From(text, i) == SubSeq(text, i, Len(text))

\* C16: a printed report reads SUCCESSFUL if and only if no finalized
\* check of its batch has status Failure and FAILED otherwise, in regular
\* and in terse mode, and the local result of call_loop, the value it
\* returns, is true if and only if the report reads SUCCESSFUL.
C16_VerdictLineAgrees ==
    \A k \in DOMAIN stdout :
        (FinalizedBatch /\ IsReport(stdout[k])) =>
            LET no_failure == \A i \in DOMAIN Finalized : Finalized[i].status # "Failure"
            IN  /\ contains(stdout[k], <<"\nVERIFICATION:- ", "SUCCESSFUL ", "\n">>)
                      <=> no_failure
                /\ contains(stdout[k], <<"\nVERIFICATION:- ", "FAILED", "\n">>)
                      <=> ~no_failure
                /\ result <=> contains(stdout[k], <<"\nVERIFICATION:- ", "SUCCESSFUL ", "\n">>)

\* C16 witness: call_loop has returned false after printing, in terse
\* mode, a report that reads FAILED for a batch with a Failure check and
\* an Undetermined check.
C16_Witness ==
    /\ Returned
    /\ output_format = "Terse"
    /\ ~result
    /\ FinalizedBatch
    /\ Number(Finalized, "Failure") = 1
    /\ Number(Finalized, "Undetermined") = 1
    /\ Len(stdout) = 1
    /\ contains(stdout[1], <<"\nVERIFICATION:- ", "FAILED", "\n">>)

\* C17 as stated, its terse part: a terse report holds no entry of the
\* failure digest.
C17_TerseHasNoDigest ==
    \A k \in DOMAIN stdout :
        (output_format = "Terse" /\ IsReport(stdout[k])) =>
            Positions(stdout[k], "Failed Checks: ") = {}

\* C17: a regular report lists every finalized check once, in order, the
\* k-th entry with index k and the k-th check's name, then the summary,
\* then one digest entry per Failure check, then the verdict.  A terse
\* report has no listing: it begins with the summary, followed by one
\* digest entry per Failure check, then the verdict; in terse mode nothing
\* is printed for a Program or Message record.
C17_ListingAndDigest ==
    \A k \in DOMAIN stdout :
        LET r == stdout[k]
            checks == Positions(r, "Check ")
            digest == Positions(r, "Failed Checks: ")
            verdict == Positions(r, "\nVERIFICATION:- ")
        IN  /\ (output_format = "Terse") => (FinalizedBatch /\ IsReport(r))
            /\ (FinalizedBatch /\ IsReport(r)) =>
                  /\ Cardinality(verdict) = 1
                  /\ Cardinality(digest) = Number(Finalized, "Failure")
                  /\ \A d \in digest : \A v \in verdict : d < v
                  /\ IF output_format = "Regular"
                     THEN /\ r[1] = "\nRESULTS:\n"
                          /\ Cardinality(checks) = Len(Finalized)
                          /\ \A n \in DOMAIN Finalized :
                                BeginsWith(From(r, NthPosition(checks, n)),
                                           <<"Check ">> \o Dec(n) \o <<": ">>
                                              \o JoinDots(Finalized[n].property,
                                                          Len(Finalized[n].property))
                                              \o <<"\n">>)
                          /\ Cardinality(Positions(r, "\nSUMMARY:")) = 1
                          /\ \A c \in checks : \A m \in Positions(r, "\nSUMMARY:") : c < m
                          /\ \A d \in digest : \A m \in Positions(r, "\nSUMMARY:") : m < d
                     ELSE /\ r[1] = "\nVERIFICATION RESULT:"
                          /\ checks = {}
                          /\ Positions(r, "\nRESULTS:\n") = {}

\* C17 witness: a regular report of three checks, two of them Failure, has
\* been printed.
C17_Witness ==
    /\ output_format = "Regular"
    /\ FinalizedBatch
    /\ Len(Finalized) = 3
    /\ Number(Finalized, "Failure") = 2
    /\ Len(stdout) = 1
    /\ Cardinality(Positions(stdout[1], "Check ")) = 3
    /\ Cardinality(Positions(stdout[1], "Failed Checks: ")) = 2

\* C18: the summary of a report reads "F of N failed", N the number of
\* finalized checks and F the number of them with status Failure, followed
\* by the number of Undetermined checks and the number of Unreachable
\* checks, each if and only if it is not zero; the three numbers add up to
\* at most N.  The terse report of one Failure check reads "1 of 1 failed".
C18_SummaryCounts ==
    \A k \in DOMAIN stdout :
        (FinalizedBatch /\ IsReport(stdout[k])) =>
            LET r == stdout[k]
                failed == Number(Finalized, "Failure")
                undetermined == Number(Finalized, "Undetermined")
                unreachable == Number(Finalized, "Unreachable")
            IN  /\ contains(r, <<"\n ** ">> \o Dec(failed) \o <<" of ">>
                                  \o Dec(Len(Finalized)) \o <<" failed">>)
                /\ Cardinality(Positions(r, " failed")) = 1
                /\ IF undetermined > 0
                   THEN contains(r, Dec(undetermined) \o <<" undetermined">>)
                   ELSE Positions(r, " undetermined") = {}
                /\ IF unreachable > 0
                   THEN contains(r, Dec(unreachable) \o <<" unreachable">>)
                   ELSE Positions(r, " unreachable") = {}
                /\ failed + undetermined + unreachable <= Len(Finalized)
                /\ (output_format = "Terse" /\ Len(Finalized) = 1 /\ failed = 1) =>
                      contains(r, <<"\n ** ", "1", " of ", "1", " failed", "\n">>)

\* C18 witness: a report has been printed for a batch of one Failure, one
\* Undetermined and one Unreachable check.
C18_Witness ==
    /\ FinalizedBatch
    /\ Len(stdout) = 1
    /\ Number(Finalized, "Failure") = 1
    /\ Number(Finalized, "Undetermined") = 1
    /\ Number(Finalized, "Unreachable") = 1
    /\ contains(stdout[1], <<" (", "1", " undetermined", ",", "1", " unreachable", ")">>)

\* the digest of the report holds the check's description and no location
DigestPlain(r, check) ==
    contains(r, <<"Failed Checks: ">> \o check.description \o <<"\n">>)

\* the digest of the report shows a location for the check
DigestLocation(r, check) ==
    contains(r, <<"Failed Checks: ">> \o check.description \o <<"\n File: \"">>)

\* the digest of the report shows this location for the check
DigestShows(r, check, loc) ==
    contains(r, <<"Failed Checks: ">> \o check.description
                   \o <<"\n File: \"">> \o unwrap(loc.file)
                   \o <<"\", line ">> \o unwrap(loc.line)
                   \o <<", in ">> \o unwrap(loc.function) \o <<"\n">>)

LastStep(check) == unwrap(check.trace)[Len(unwrap(check.trace))]

\* C19 as stated: for a Failure check with a non-empty trace the digest
\* omits the location exactly when the last step's file or line is missing.
C19_OmittedIffFileOrLineMissing ==
    \A k \in DOMAIN stdout :
        (FinalizedBatch /\ IsReport(stdout[k])) =>
            \A i \in DOMAIN Finalized :
                (/\ Finalized[i].status = "Failure"
                 /\ is_some(Finalized[i].trace)
                 /\ unwrap(Finalized[i].trace) # <<>>) =>
                    LET wrap == LastStep(Finalized[i]).source_location
                    IN  ~DigestLocation(stdout[k], Finalized[i])
                           <=> (\/ ~is_some(wrap)
                                \/ ~is_some(unwrap(wrap).file)
                                \/ ~is_some(unwrap(wrap).line))

\* C19: the digest of a report holds the description of every Failure
\* check; for one with a non-empty trace it shows a location if and only if
\* the last step has a location with file, line and function all present,
\* and the location shown is that of the last step; a Failure check with
\* no trace has no location in the digest.
C19_LastStepLocation ==
    \A k \in DOMAIN stdout :
        (FinalizedBatch /\ IsReport(stdout[k])) =>
            \A i \in DOMAIN Finalized :
                (Finalized[i].status = "Failure") =>
                    /\ \/ DigestPlain(stdout[k], Finalized[i])
                       \/ DigestLocation(stdout[k], Finalized[i])
                    /\ ~is_some(Finalized[i].trace) => ~DigestLocation(stdout[k], Finalized[i])
                    /\ (is_some(Finalized[i].trace) /\ unwrap(Finalized[i].trace) # <<>>) =>
                          LET wrap == LastStep(Finalized[i]).source_location
                              complete == /\ is_some(wrap)
                                          /\ is_some(unwrap(wrap).file)
                                          /\ is_some(unwrap(wrap).line)
                                          /\ is_some(unwrap(wrap).function)
                          IN  /\ DigestLocation(stdout[k], Finalized[i]) <=> complete
                              /\ complete => DigestShows(stdout[k], Finalized[i], unwrap(wrap))

\* C19 witness: a report has been printed whose digest shows the last
\* step's location for one Failure check and none for another whose last
\* step has file and line but no function.
C19_Witness ==
    /\ FinalizedBatch
    /\ Len(stdout) = 1
    /\ \E i \in DOMAIN Finalized :
          /\ Finalized[i].description = <<"full">>
          /\ DigestShows(stdout[1], Finalized[i], unwrap(LastStep(Finalized[i]).source_location))
    /\ \E i \in DOMAIN Finalized :
          /\ Finalized[i].description = <<"no function">>
          /\ DigestPlain(stdout[1], Finalized[i])
          /\ ~DigestLocation(stdout[1], Finalized[i])

\* C20 as stated: formatting a finalized batch in regular or terse mode
\* never halts the run, whatever optional data its checks lack.
C20_MissingDataNeverFatal ==
    (Halted /\ FinalizedBatch) => output_format = "Old"

\* C20 witness: the run halted while formatting, in terse mode, a
\* finalized batch whose Failure check carries an empty trace.
C20_Witness ==
    /\ Halted
    /\ FinalizedBatch
    /\ output_format = "Terse"
    /\ \E i \in DOMAIN Finalized :
          Finalized[i].status = "Failure" /\ Finalized[i].trace = Some(<<>>)

\* C21 as stated: a report holds the unsupported-construct warning if and
\* only if some finalized check's description contains the
\* unsupported-construct marker, and the unwinding tip if and only if some
\* finalized check's description contains the unwinding-assertion marker.
C21_AdvisoryIffMarker ==
    \A k \in DOMAIN stdout :
        (FinalizedBatch /\ IsReport(stdout[k])) =>
            /\ (Positions(stdout[k], UNSUPPORTED_WARNING[1]) # {})
                  <=> \E i \in DOMAIN Finalized :
                         contains(Finalized[i].description, UNSUPPORTED_CONSTRUCT_DESC)
            /\ (Positions(stdout[k], UNWINDING_TIP[1]) # {})
                  <=> \E i \in DOMAIN Finalized :
                         contains(Finalized[i].description, UNWINDING_ASSERT_DESC)

\* C21: in regular and in terse mode a report holds the
\* unsupported-construct warning once if some finalized check has status
\* Failure and a description containing the unsupported-construct marker,
\* and not at all otherwise; independently it holds the unwinding tip once
\* if some finalized check has status Failure and a description containing
\* the unwinding-assertion marker, and not at all otherwise; both come
\* after the verdict line.
C21_AdvisoryIffFailedMarker ==
    \A k \in DOMAIN stdout :
        (FinalizedBatch /\ IsReport(stdout[k])) =>
            LET r == stdout[k]
                failed_with(marker) ==
                    \E i \in DOMAIN Finalized :
                        /\ Finalized[i].status = "Failure"
                        /\ contains(Finalized[i].description, marker)
                warnings == Positions(r, UNSUPPORTED_WARNING[1])
                tips == Positions(r, UNWINDING_TIP[1])
            IN  /\ Cardinality(warnings) = IF failed_with(UNSUPPORTED_CONSTRUCT_DESC) THEN 1 ELSE 0
                /\ Cardinality(tips) = IF failed_with(UNWINDING_ASSERT_DESC) THEN 1 ELSE 0
                /\ Cardinality(Positions(r, UNWINDING_TIP[2])) = Cardinality(tips)
                /\ \A a \in warnings \cup tips :
                      \A v \in Positions(r, "\nVERIFICATION:- ") : v < a

\* C21 witness: a terse report has been printed that holds the unwinding
\* tip and no warning, for a batch with a failed unwinding assertion and a
\* check, not Failure, whose description contains the unsupported-construct
\* marker.
C21_Witness ==
    /\ output_format = "Terse"
    /\ FinalizedBatch
    /\ Len(stdout) = 1
    /\ Positions(stdout[1], UNWINDING_TIP[1]) # {}
    /\ Positions(stdout[1], UNSUPPORTED_WARNING[1]) = {}
    /\ \E i \in DOMAIN Finalized :
          /\ Finalized[i].status # "Failure"
          /\ contains(Finalized[i].description, UNSUPPORTED_CONSTRUCT_DESC)

(***************************************************************************)
(* Properties of the item classifier, checked under SpecLoop               *)
(***************************************************************************)
\* the record is a Message whose text begins with a boilerplate prefix
Boilerplate(it) ==
    /\ it.kind = "Message"
    /\ \/ BeginsWith(it.text, <<"Building error trace">>)
       \/ BeginsWith(it.text, <<"VERIFICATION">>)

\* C22: the loop body drops a Message record whose text begins with
\* "Building error trace" or "VERIFICATION": the loop goes back to reading
\* with no transformed item, nothing printed and the verdict as it was,
\* whatever the output mode; any other record, a Program record with such a
\* text included, goes on to processing (the pipeline for a batch) and
\* formatting.
C22_BoilerplateSuppressed ==
    [][(pc = "body") =>
          IF Boilerplate(unwrap(item))
          THEN /\ pc' = "next"
               /\ trans_item' = trans_item
               /\ stdout' = stdout
               /\ result' = result
               /\ properties' = properties
          ELSE IF unwrap(item).kind = "Result"
          THEN pc' = "scan" /\ properties' = unwrap(item).result
          ELSE pc' = "format" /\ is_some(trans_item')]_vars

\* C22 witness: a Program record whose text begins with "VERIFICATION" has
\* been printed, and the record now in the loop body is a Message with
\* that prefix.
C22_Witness ==
    /\ pc = "body"
    /\ Boilerplate(unwrap(item))
    /\ BeginsWith(unwrap(item).text, <<"VERIFICATION">>)
    /\ stdout = << <<"VERIFICATION", " tool">> >>

\* the flags the rewrite inserts
\* new is old with the flags inserted before every "--object-bits "
FlagsInserted(old, new) ==
    /\ SelectSeq(new, LAMBDA a : a # "--enable-unstable --cbmc-args ") = old
    /\ \A i \in DOMAIN new :
          /\ (new[i] = "--object-bits ") => (i > 1 /\ new[i - 1] = "--enable-unstable --cbmc-args ")
          /\ (new[i] = "--enable-unstable --cbmc-args ") => (i < Len(new) /\ new[i + 1] = "--object-bits ")

\* C23: the loop body hands on a record other than a batch and a
\* suppressed message as it is, unless it is a Message of severity ERROR
\* whose text contains the object-bits hint: then the text handed on is the
\* old text with the flags inserted before "--object-bits " and the
\* severity is still ERROR.  The verdict is untouched.
C23_ErrorMessageRewrite ==
    [][(pc = "body" /\ ~Boilerplate(unwrap(item)) /\ unwrap(item).kind # "Result") =>
          LET it == unwrap(item)
          IN  /\ result' = result
              /\ is_some(trans_item')
              /\ IF /\ it.kind = "Message"
                    /\ it.message_type = <<"ERROR">>
                    /\ contains(it.text, OBJECT_BITS_HINT)
                 THEN /\ unwrap(trans_item').kind = "Message"
                      /\ unwrap(trans_item').message_type = <<"ERROR">>
                      /\ unwrap(trans_item').text # it.text
                      /\ FlagsInserted(it.text, unwrap(trans_item').text)
                 ELSE unwrap(trans_item') = it]_vars

\* C23 witness: an ERROR message with the hint has been rewritten and
\* printed, after a message with the same text and another severity was
\* printed as it was.
C23_Witness ==
    /\ pc = "next"
    /\ is_some(trans_item)
    /\ unwrap(trans_item).message_type = <<"ERROR">>
    /\ Len(stdout) = 2
    /\ contains(stdout[1], OBJECT_BITS_HINT)
    /\ Positions(stdout[1], "--enable-unstable --cbmc-args ") = {}
    /\ stdout[2] = unwrap(trans_item).text
    /\ FlagsInserted(stdout[1], stdout[2])
    /\ stdout[2] # stdout[1]

(***************************************************************************)
(* Properties of the description stages and the partition, checked under   *)
(* SpecStages                                                              *)
(***************************************************************************)
\* modify_undefined_function_checks has run
Modified == pc \in {"reach", "sanity", "annotate", "ids", "ptr", "final", "result", "done"}

\* the check is the one the specification singles out: category exactly
\* assertion, description exactly "assertion false", no source file
ExactUndefined(prop) ==
    /\ Category(prop) = DEFAULT_ASSERTION
    /\ prop.description = ASSERTION_FALSE
    /\ ~is_some(prop.source_location.file)

\* C24 as stated: after the stage a check carries the fixed sentence in
\* place of its description if and only if its category is exactly
\* assertion, its description exactly "assertion false" and it has no
\* source file; the flag is raised if and only if such a check has status
\* Failure.
C24_RewrittenIffExact ==
    Modified =>
        /\ \A i \in DOMAIN properties :
              /\ properties_with_undefined[i].description =
                    IF ExactUndefined(properties[i]) THEN UNDEFINED_FUNCTION_DESC
                    ELSE properties[i].description
        /\ has_reachable_undefined_functions
              <=> \E i \in DOMAIN properties :
                     ExactUndefined(properties[i]) /\ properties[i].status = "Failure"

\* C24 witness: the batch holds a Failure check of category assertion, no
\* source file, described "x assertion false", and a Success check; the
\* run has completed with the first check carrying the fixed sentence, the
\* flag raised and the second check finalized as Undetermined.
C24_Witness ==
    /\ Completed
    /\ Len(properties) = 2
    /\ properties[1].description = <<"x", " ">> \o ASSERTION_FALSE
    /\ properties_with_undefined[1].description = UNDEFINED_FUNCTION_DESC
    /\ has_reachable_undefined_functions
    /\ properties[2].status = "Success"
    /\ \E k \in DOMAIN final_properties :
          final_properties[k].origin = 2 /\ final_properties[k].status = "Undetermined"

\* the description the final pass is to give the check: row holds the
\* entries, in table order, of the row of the check's category
Readable(prop) ==
    LET rows == {k \in DOMAIN CBMC_DESCRIPTIONS : CBMC_DESCRIPTIONS[k][1] = Category(prop)}
        row == IF rows = {} THEN <<>> ELSE CBMC_DESCRIPTIONS[CHOOSE k \in rows : TRUE][2]
        matching == {e \in DOMAIN row : contains(prop.description, row[e][1])}
    IN  IF matching = {} THEN prop.description
        ELSE LET e == CHOOSE x \in matching : \A y \in matching : x <= y
             IN  IF row[e][2] = None THEN row[e][1] ELSE row[e][2][1]

\* C25: the final pass gives every remaining check the alias (or, with no
\* alias, the pattern) of the earliest entry, in table order, of its
\* category's row whose pattern occurs in its description, and leaves the
\* description as it is when the category has no row or no entry matches.
\* An array_bounds check whose description contains "upper bound" and not
\* "lower bound" gets "index out of bounds: the length is less than or
\* equal to the given index".
C25_FirstAliasInTableOrder ==
    pc \in {"result", "done"} =>
        /\ Len(final_properties) = Len(new_properties)
        /\ \A k \in DOMAIN new_properties :
              /\ final_properties[k].description = Readable(new_properties[k])
              /\ (/\ Category(new_properties[k]) = <<"array_bounds">>
                  /\ contains(new_properties[k].description, <<"upper bound">>)
                  /\ ~contains(new_properties[k].description, <<"lower bound">>))
                 => final_properties[k].description =
                       <<"index out of bounds: the length is less than or equal to the given index">>

\* C25 witness: the final pass has run on an array_bounds check described
\* "upper bound or lower bound", now "index out of bounds" (the entry for
\* "lower bound" comes first in the table), and on an array_bounds check
\* whose description contains only "upper bound", now the alias of that
\* entry.
C25_Witness ==
    /\ pc \in {"result", "done"}
    /\ Len(new_properties) = 2
    /\ new_properties[1].description = <<"upper bound", " or ", "lower bound">>
    /\ final_properties[1].description = <<"index out of bounds">>
    /\ new_properties[2].description = <<"array ", "upper bound", " in a[i]">>
    /\ final_properties[2].description =
          <<"index out of bounds: the length is less than or equal to the given index">>

\* remove_check_ids_from_description has run
Stripped == pc \in {"ptr", "final", "result", "done"}

\* the stage has changed nothing but descriptions
OnlyDescriptionsStripped ==
    Stripped =>
        /\ Len(properties_without_ids) = Len(properties_annotated)
        /\ \A k \in DOMAIN properties_annotated :
              properties_without_ids[k] =
                 [properties_annotated[k] EXCEPT
                     !.description = properties_without_ids[k].description]

\* C26: remove_check_ids_from_description is idempotent (applied to its own
\* result it gives that result back) and changes nothing but descriptions:
\* status, reach, id, location, trace, order and count stay as they were.
C26_StripIdempotent ==
    /\ Stripped =>
          remove_check_ids_from_description(properties_without_ids) = properties_without_ids
    /\ OnlyDescriptionsStripped

\* C26 witness: the stage has run on a description with a token on each of
\* two lines; the first token is gone, the second is left, and a second
\* application removes it too.
C26_Witness ==
    /\ Stripped
    /\ Len(properties_annotated) = 1
    /\ properties_annotated[1].description =
          Token(IdA) \o <<" ", "msg", "\n">> \o Token(IdB) \o <<" ", "more">>
    /\ properties_without_ids[1].description = <<"msg", "\n">> \o Token(IdB) \o <<" ", "more">>
    /\ remove_check_ids_from_description(properties_without_ids)[1].description =
          <<"msg", "\n", "more">>

\* C27: once the stripping stage has run, and so in the finalized sequence,
\* no real check's description contains a bracket-delimited check-id token,
\* wherever the token stood and however often it occurred.
C27_NoTokenAfterStrip ==
    /\ Stripped =>
          \A k \in DOMAIN properties_without_ids :
              TokenStarts(properties_without_ids[k].description) = {}
    /\ Completed =>
          \A k \in DOMAIN final_properties :
              TokenStarts(final_properties[k].description) = {}

\* C27 witness: the pipeline has completed on a check whose description ends
\* with the token; the annotation stage recognised the token (reach is set
\* from the marker of the same id) and the finalized description still has
\* it.
C27_Witness ==
    /\ Completed
    /\ Len(properties) = 2
    /\ properties[1].description = <<"msg", " ">> \o Token(IdA)
    /\ properties[2].description = MarkerDesc(IdA)
    /\ Len(final_properties) = 1
    /\ final_properties[1].reach = Some("Success")
    /\ final_properties[1].description = <<"msg", " ">> \o Token(IdA)

\* the checks of the input batch that are not markers at partition time,
\* that is after modify_undefined_function_checks
RealInput ==
    SelectSeq(properties,
              LAMBDA prop : ~IsMarker(modify_undefined_function_checks(<<prop>>).properties[1]))

\* no real check got a reach value from a marker
NoReachSet == \A k \in DOMAIN properties_annotated : properties_annotated[k].reach = None

\* the pipeline gives, on the real checks alone, what it gave on the batch
SameAsWithoutMarkers ==
    LET alone == postprocess_result(RealInput, extra_ptr_checks)
    IN  /\ ~alone.panic
        /\ alone.properties = final_properties
        /\ alone.result = overall_result

\* the partition puts the markers, and only them, aside
MarkersSetAside ==
    /\ reach_checks = SelectSeq(properties_with_undefined, IsMarker)
    /\ properties_without_reachs = SelectSeq(properties_with_undefined, LAMBDA prop : ~IsMarker(prop))
    /\ Len(final_properties) <= Len(properties_without_reachs)
    /\ \A k \in DOMAIN final_properties : ~IsMarker(final_properties[k])

\* C28 as stated: markers are absent from the finalized sequence and from
\* its counts, every other check is real, and a marker influences the
\* result only through the reach value of the real checks it correlates
\* with: when no real check got a reach value, the result is that of the
\* real checks alone.
C28_MarkersOnlyThroughReach ==
    Completed => /\ MarkersSetAside
                 /\ NoReachSet => SameAsWithoutMarkers

\* C28 corrected: markers are absent from the finalized sequence and from
\* its counts and every other check is real; a marker influences the result
\* of a completed run through the reach value of the real checks it
\* correlates with and through the fault flags, which are scanned on the
\* whole batch: when no real check got a reach value and no failed marker
\* carries the unsupported-construct or unwinding-assertion text, the
\* result is that of the real checks alone.
C28_MarkersThroughReachAndFlags ==
    Completed => /\ MarkersSetAside
                 /\ (/\ NoReachSet
                     /\ ~\E k \in DOMAIN reach_checks :
                           /\ reach_checks[k].status = "Failure"
                           /\ \/ contains(reach_checks[k].description,
                                           UNSUPPORTED_CONSTRUCT_DESC)
                              \/ contains(reach_checks[k].description,
                                           UNWINDING_ASSERT_DESC))
                    => SameAsWithoutMarkers

\* C28 witness: the pipeline has completed on a real Success check and a
\* failed marker that carries the unsupported-construct text; the marker is
\* not in the finalized sequence, no reach value was set, and the real
\* check is Undetermined.
C28_Witness ==
    /\ Completed
    /\ Len(properties) = 2
    /\ properties[1].description = <<"msg">>
    /\ properties[1].status = "Success"
    /\ properties[2].description = MarkerDesc(IdB) \o <<" ">> \o UNSUPPORTED_CONSTRUCT_DESC
    /\ Len(reach_checks) = 1
    /\ NoReachSet
    /\ Len(final_properties) = 1
    /\ final_properties[1].status = "Undetermined"
    /\ postprocess_result(RealInput, extra_ptr_checks).properties[1].status = "Success"

(***************************************************************************)
(* Properties of the value call_loop returns, checked under SpecLoop       *)
(***************************************************************************)
\* process_item has not been given a Result item (every Result item of
\* the streams carries at least one check)
NoBatchYet == properties = <<>>

\* call_loop returns false, having printed no report, when it was given no
\* Result item, and true only as the verdict of a batch it postprocessed
VerdictFailSafe ==
    pc = "returned" =>
        /\ NoBatchYet => /\ result = FALSE
                         /\ \A k \in DOMAIN stdout : ~IsReport(stdout[k])
        /\ result => (~NoBatchYet /\ overall_result)

C29_FailSafeWhenImplemented ==
    /\ []VerdictFailSafe
    /\ [][(stream_end = "eof" /\ NoBatchYet /\ pc = "format" /\ output_format # "Old")
             => pc' # "panicked"]_vars

====
